---- MODULE Spec2Model ----
(***************************************************************************)
(* Rule evaluation engine and rule store of the Numina flagging mechanism. *)
(*                                                                         *)
(* JavaScript values are tagged records; JavaScript strings are sequences  *)
(* of one-character strings, so that split, startsWith, substring,         *)
(* parseInt, parseFloat, String(), toLowerCase and includes are computed   *)
(* rather than assumed.                                                    *)
(***************************************************************************)
EXTENDS Integers, Sequences, FiniteSets, TLC

(***************************************************************************)
(* Bounds of the model                                                     *)
(***************************************************************************)
MaxConds == 3
MaxRules == 3
MaxStored == 3
MaxIds == 3

(***************************************************************************)
(* JavaScript values                                                       *)
(***************************************************************************)
Undef == [k |-> "undef"]
Null == [k |-> "null"]
Num(n) == [k |-> "num", n |-> n]
Str(s) == [k |-> "str", s |-> s]
Bool(b) == [k |-> "bool", b |-> b]
Arr(a) == [k |-> "arr", a |-> a]
Obj(f) == [k |-> "obj", f |-> f]

IsAbsent(v) == v.k \in {"undef", "null"}
IsArray(v) == v.k = "arr"

\* Result of a numeric parse: NaN, or a natural number
NaN == [ok |-> FALSE, n |-> 0]
Number(n) == [ok |-> TRUE, n |-> n]

(***************************************************************************)
(* String primitives                                                       *)
(***************************************************************************)
Digits == <<"0", "1", "2", "3", "4", "5", "6", "7", "8", "9">>

IsDigit(c) == \E i \in 1..10 : Digits[i] = c

DigitVal(c) == (CHOOSE i \in 1..10 : Digits[i] = c) - 1

\* /^\d+$/
AllDigits(s) == Len(s) > 0 /\ \A i \in 1..Len(s) : IsDigit(s[i])

RECURSIVE DigitsValue(_)
DigitsValue(s) ==
  IF Len(s) = 0 THEN 0
  ELSE 10 * DigitsValue(SubSeq(s, 1, Len(s) - 1)) + DigitVal(s[Len(s)])

RECURSIVE NumToStr(_)
NumToStr(n) ==
  IF n < 10 THEN <<Digits[n + 1]>>
  ELSE NumToStr(n \div 10) \o <<Digits[(n % 10) + 1]>>

\* Length of the longest all-digit prefix of s
RECURSIVE DigitPrefixLen(_)
DigitPrefixLen(s) ==
  IF Len(s) = 0 \/ ~IsDigit(s[1]) THEN 0
  ELSE 1 + DigitPrefixLen(Tail(s))

\* String.prototype.split('.')
RECURSIVE SplitFrom(_, _, _)
SplitFrom(s, i, cur) ==
  IF i > Len(s) THEN <<cur>>
  ELSE IF s[i] = "." THEN <<cur>> \o SplitFrom(s, i + 1, <<>>)
  ELSE SplitFrom(s, i + 1, Append(cur, s[i]))

Split(s) == SplitFrom(s, 1, <<>>)

\* Array.prototype.join('.')
RECURSIVE Join(_)
Join(parts) ==
  IF Len(parts) = 0 THEN <<>>
  ELSE IF Len(parts) = 1 THEN parts[1]
  ELSE parts[1] \o <<".">> \o Join(Tail(parts))

StartsWith(s, p) == Len(s) >= Len(p) /\ SubSeq(s, 1, Len(p)) = p

\* String.prototype.substring(n)
Substring(s, n) == SubSeq(s, n + 1, Len(s))

\* String.prototype.includes
Includes(s, t) ==
  \E i \in 0..Len(s) : i + Len(t) <= Len(s) /\ SubSeq(s, i + 1, i + Len(t)) = t

Upper == <<"A", "I", "L", "S", "V">>
Lower == <<"a", "i", "l", "s", "v">>

LowerChar(c) ==
  IF \E i \in 1..Len(Upper) : Upper[i] = c
  THEN Lower[CHOOSE i \in 1..Len(Upper) : Upper[i] = c]
  ELSE c

ToLowerCase(s) == [i \in 1..Len(s) |-> LowerChar(s[i])]

LinePrefix == <<"L", "i", "n", "e", ".">>
LengthKey == <<"l", "e", "n", "g", "t", "h">>
ObjectString == <<"[", "o", "b", "j", "e", "c", "t", " ", "O", "b", "j", "e", "c", "t", "]">>

(***************************************************************************)
(* Conversions: String(v), Number(v), parseFloat(v)                        *)
(***************************************************************************)
RECURSIVE ToStr(_)
RECURSIVE JoinComma(_)
JoinComma(a) ==
  IF Len(a) = 0 THEN <<>>
  ELSE LET h == IF IsAbsent(a[1]) THEN <<>> ELSE ToStr(a[1])
       IN IF Len(a) = 1 THEN h ELSE h \o <<",">> \o JoinComma(Tail(a))

ToStr(v) ==
  CASE v.k = "str" -> v.s
    [] v.k = "num" -> NumToStr(v.n)
    [] v.k = "bool" -> IF v.b THEN <<"t", "r", "u", "e">> ELSE <<"f", "a", "l", "s", "e">>
    [] v.k = "null" -> <<"n", "u", "l", "l">>
    [] v.k = "undef" -> <<"u", "n", "d", "e", "f", "i", "n", "e", "d">>
    [] v.k = "arr" -> JoinComma(v.a)
    [] v.k = "obj" -> ObjectString

\* Number(string) for strings over digits and letters
StrToNumber(s) ==
  IF Len(s) = 0 THEN Number(0)
  ELSE IF AllDigits(s) THEN Number(DigitsValue(s))
  ELSE NaN

\* parseFloat(string) for strings over digits and letters
StrParseFloat(s) ==
  IF DigitPrefixLen(s) = 0 THEN NaN
  ELSE Number(DigitsValue(SubSeq(s, 1, DigitPrefixLen(s))))

parseFloat(v) == IF v.k = "num" THEN Number(v.n) ELSE StrParseFloat(ToStr(v))

(***************************************************************************)
(* Property access current[key]                                            *)
(***************************************************************************)
GetIndex(v, n) ==
  CASE v.k = "arr" -> IF n < Len(v.a) THEN v.a[n + 1] ELSE Undef
    [] v.k = "str" -> IF n < Len(v.s) THEN Str(<<v.s[n + 1]>>) ELSE Undef
    [] v.k = "obj" -> IF NumToStr(n) \in DOMAIN v.f THEN v.f[NumToStr(n)] ELSE Undef
    [] OTHER -> Undef

GetKey(v, key) ==
  CASE v.k = "obj" -> IF key \in DOMAIN v.f THEN v.f[key] ELSE Undef
    [] v.k = "arr" -> IF key = LengthKey THEN Num(Len(v.a)) ELSE Undef
    [] v.k = "str" -> IF key = LengthKey THEN Num(Len(v.s)) ELSE Undef
    [] OTHER -> Undef

\* The reducer with the index test /^\d+/, which also takes "0A" for an index
PathStepDigitPrefix(current, key) ==
  IF IsAbsent(current) THEN Undef
  ELSE IF DigitPrefixLen(key) > 0
  THEN GetIndex(current, DigitsValue(SubSeq(key, 1, DigitPrefixLen(key))))
  ELSE GetKey(current, key)

\* The reducer of getNestedValue
PathStep(current, key) ==
  IF IsAbsent(current) THEN Undef
  ELSE IF AllDigits(key) THEN GetIndex(current, DigitsValue(key))
  ELSE GetKey(current, key)

RECURSIVE Reduce(_, _, _)
Reduce(keys, i, current) ==
  IF i > Len(keys) THEN current
  ELSE Reduce(keys, i + 1, PathStep(current, keys[i]))

getNestedValue(obj, path) == Reduce(Split(path), 1, obj)

isLineField(field) == StartsWith(field, LinePrefix)

(***************************************************************************)
(* compare                                                                 *)
(***************************************************************************)
\* Abstract (loose) equality a == b
\* Loose equality that compares two numeric strings as numbers
RECURSIVE LooseEqNumericStrings(_, _)
LooseEqNumericStrings(a, b) ==
  CASE IsAbsent(a) \/ IsAbsent(b) -> IsAbsent(a) /\ IsAbsent(b)
    [] a.k = "bool" -> LooseEqNumericStrings(Num(IF a.b THEN 1 ELSE 0), b)
    [] b.k = "bool" -> LooseEqNumericStrings(a, Num(IF b.b THEN 1 ELSE 0))
    [] a.k = "num" /\ b.k = "num" -> a.n = b.n
    [] a.k = "str" /\ b.k = "str" ->
         IF StrParseFloat(a.s).ok /\ StrParseFloat(b.s).ok
         THEN StrParseFloat(a.s).n = StrParseFloat(b.s).n
         ELSE a.s = b.s
    [] a.k = "num" /\ b.k = "str" -> StrToNumber(b.s).ok /\ StrToNumber(b.s).n = a.n
    [] a.k = "str" /\ b.k = "num" -> StrToNumber(a.s).ok /\ StrToNumber(a.s).n = b.n
    [] a.k \in {"arr", "obj"} /\ b.k \in {"arr", "obj"} -> FALSE
    [] a.k \in {"arr", "obj"} -> LooseEqNumericStrings(Str(ToStr(a)), b)
    [] OTHER -> LooseEqNumericStrings(a, Str(ToStr(b)))

RECURSIVE LooseEq(_, _)
LooseEq(a, b) ==
  CASE IsAbsent(a) \/ IsAbsent(b) -> IsAbsent(a) /\ IsAbsent(b)
    [] a.k = "bool" -> LooseEq(Num(IF a.b THEN 1 ELSE 0), b)
    [] b.k = "bool" -> LooseEq(a, Num(IF b.b THEN 1 ELSE 0))
    [] a.k = "num" /\ b.k = "num" -> a.n = b.n
    [] a.k = "str" /\ b.k = "str" -> a.s = b.s
    [] a.k = "num" /\ b.k = "str" -> StrToNumber(b.s).ok /\ StrToNumber(b.s).n = a.n
    [] a.k = "str" /\ b.k = "num" -> StrToNumber(a.s).ok /\ StrToNumber(a.s).n = b.n
    [] a.k \in {"arr", "obj"} /\ b.k \in {"arr", "obj"} -> FALSE
    [] a.k \in {"arr", "obj"} -> LooseEq(Str(ToStr(a)), b)
    [] OTHER -> LooseEq(a, Str(ToStr(b)))

\* Strict sameness used by Array.prototype.includes
SameValueZero(a, b) == a.k \notin {"arr", "obj"} /\ a = b

ArrayIncludes(arr, v) == \E i \in 1..Len(arr) : SameValueZero(v, arr[i])

NumGt(x, y) == x.ok /\ y.ok /\ x.n > y.n

\* compare with not_in as the plain negation of in
compareNotInNegatesIn(fieldValue, operator, value) ==
  IF IsAbsent(fieldValue) THEN FALSE
  ELSE CASE operator = "eq" -> LooseEq(fieldValue, value)
         [] operator = "ne" -> ~LooseEq(fieldValue, value)
         [] operator = "gt" -> NumGt(parseFloat(fieldValue), parseFloat(value))
         [] operator = "lt" -> NumGt(parseFloat(value), parseFloat(fieldValue))
         [] operator = "contains" ->
              Includes(ToLowerCase(ToStr(fieldValue)), ToLowerCase(ToStr(value)))
         [] operator = "not_contains" ->
              ~Includes(ToLowerCase(ToStr(fieldValue)), ToLowerCase(ToStr(value)))
         [] operator = "in" -> IsArray(value) /\ ArrayIncludes(value.a, fieldValue)
         [] operator = "not_in" -> ~(IsArray(value) /\ ArrayIncludes(value.a, fieldValue))
         [] OTHER -> FALSE

\* compare without its guard on null and undefined
compareUnguarded(fieldValue, operator, value) ==
  CASE operator = "eq" -> LooseEq(fieldValue, value)
    [] operator = "ne" -> ~LooseEq(fieldValue, value)
    [] operator = "gt" -> NumGt(parseFloat(fieldValue), parseFloat(value))
    [] operator = "lt" -> NumGt(parseFloat(value), parseFloat(fieldValue))
    [] operator = "contains" ->
         Includes(ToLowerCase(ToStr(fieldValue)), ToLowerCase(ToStr(value)))
    [] operator = "not_contains" ->
         ~Includes(ToLowerCase(ToStr(fieldValue)), ToLowerCase(ToStr(value)))
    [] operator = "in" -> IsArray(value) /\ ArrayIncludes(value.a, fieldValue)
    [] operator = "not_in" -> IsArray(value) /\ ~ArrayIncludes(value.a, fieldValue)
    [] OTHER -> FALSE

compare(fieldValue, operator, value) ==
  IF IsAbsent(fieldValue) THEN FALSE
  ELSE CASE operator = "eq" -> LooseEq(fieldValue, value)
         [] operator = "ne" -> ~LooseEq(fieldValue, value)
         [] operator = "gt" -> NumGt(parseFloat(fieldValue), parseFloat(value))
         [] operator = "lt" -> NumGt(parseFloat(value), parseFloat(fieldValue))
         [] operator = "contains" ->
              Includes(ToLowerCase(ToStr(fieldValue)), ToLowerCase(ToStr(value)))
         [] operator = "not_contains" ->
              ~Includes(ToLowerCase(ToStr(fieldValue)), ToLowerCase(ToStr(value)))
         [] operator = "in" -> IsArray(value) /\ ArrayIncludes(value.a, fieldValue)
         [] operator = "not_in" -> IsArray(value) /\ ~ArrayIncludes(value.a, fieldValue)
         [] OTHER -> FALSE

(***************************************************************************)
(* Conditions, evaluateCondition, evaluateConditions                       *)
(***************************************************************************)
\* A condition whose logical_operator property is missing carries NoOp
NoOp == "undefined"

Cond(field, operator, value, lop) ==
  [field |-> field, operator |-> operator, value |-> value, logical_operator |-> lop]

LineKey == <<"L", "i", "n", "e">>
IdKey == <<"I", "d">>
AmtKey == <<"A", "m", "t">>
RefKey == <<"R", "e", "f">>
NmKey == <<"N", "m">>

\* Mutant of SomeLine: universal instead of existential quantification
EveryLine(lines, lineFieldPath, operator, value) ==
  \A i \in 1..Len(lines) :
    compare(getNestedValue(lines[i], lineFieldPath), operator, value)

\* lines.some(line => compare(getNestedValue(line, lineFieldPath), operator, value))
SomeLine(lines, lineFieldPath, operator, value) ==
  \E i \in 1..Len(lines) :
    compare(getNestedValue(lines[i], lineFieldPath), operator, value)

evaluateCondition(transaction, condition) ==
  IF isLineField(condition.field)
  THEN LET lines == GetKey(transaction, LineKey)
       IN IF ~IsArray(lines) THEN FALSE
          ELSE SomeLine(lines.a, Substring(condition.field, 5),
                        condition.operator, condition.value)
  ELSE compare(getNestedValue(transaction, condition.field),
               condition.operator, condition.value)

\* Mutant of CombineStep: a missing logical_operator combines with OR
CombineStepDefaultOr(result, condition, condResult) ==
  LET op == IF condition.logical_operator = NoOp THEN "OR"
            ELSE condition.logical_operator
  IN IF op = "OR" THEN result \/ condResult ELSE result /\ condResult

\* One iteration of the loop of evaluateConditions
CombineStep(result, condition, condResult) ==
  LET op == IF condition.logical_operator = NoOp THEN "AND"
            ELSE condition.logical_operator
  IN IF op = "OR" THEN result \/ condResult ELSE result /\ condResult

RECURSIVE FoldLoop(_, _, _, _)
FoldLoop(transaction, conds, i, result) ==
  IF i > Len(conds) THEN result
  ELSE FoldLoop(transaction, conds, i + 1,
                CombineStep(result, conds[i], evaluateCondition(transaction, conds[i])))

\* evaluateConditions with AND binding tighter than OR: a disjunction of
\* the runs of conditions delimited by the conditions that carry OR
evaluateConditionsAndBindsTighter(transaction, conditions) ==
  IF IsAbsent(conditions) \/ Len(conditions.a) = 0 THEN TRUE
  ELSE LET conds == conditions.a
           starts == {1} \cup {i \in 2..Len(conds) : conds[i].logical_operator = "OR"}
       IN \E s \in starts :
            \A j \in s..Len(conds) :
              (\A m \in (s + 1)..j : m \notin starts) =>
                evaluateCondition(transaction, conds[j])

\* evaluateConditions without the length test: an empty list passes nothing
evaluateConditionsEmptyFails(transaction, conditions) ==
  IF IsAbsent(conditions) THEN TRUE
  ELSE IF Len(conditions.a) = 0 THEN FALSE
  ELSE FoldLoop(transaction, conditions.a, 2,
                evaluateCondition(transaction, conditions.a[1]))

\* conditions is a JavaScript value: an array of conditions, or undefined
evaluateConditions(transaction, conditions) ==
  IF IsAbsent(conditions) \/ Len(conditions.a) = 0 THEN TRUE
  ELSE FoldLoop(transaction, conditions.a, 2,
                evaluateCondition(transaction, conditions.a[1]))

(***************************************************************************)
(* Inputs of the evaluation                                                *)
(***************************************************************************)
S1(a) == <<a>>
Line1(amt) == Obj(AmtKey :> amt)

Tx(id, amt) == Obj((IdKey :> Str(S1(id))) @@ (AmtKey :> amt))
TxL(id, amt, line) == Obj((IdKey :> Str(S1(id))) @@ (AmtKey :> amt) @@ (LineKey :> line))
TxR(id, amt, nm) ==
  Obj((IdKey :> Str(S1(id))) @@ (AmtKey :> amt) @@ (RefKey :> Obj(NmKey :> Str(nm))))
TxRL(id, amt, nm, line) ==
  Obj((IdKey :> Str(S1(id))) @@ (AmtKey :> amt) @@ (RefKey :> Obj(NmKey :> Str(nm)))
      @@ (LineKey :> line))

VISA == <<"V", "I", "S", "A">>
visa == <<"v", "i", "s", "a">>

TxA == TxRL("1", Str(<<"6", "0", "0">>), VISA, Arr(<<Line1(Num(150)), Line1(Num(50))>>))
TxB == Tx("2", Str(<<"1", "0", "0">>))
TxC == TxL("3", Num(700), Line1(Num(150)))
TxD == TxL("4", Str(<<"a", "b", "c">>), Arr(<<>>))
TxE == TxRL("5", Str(<<"5", "0">>), visa, Arr(<<Line1(Num(50)), Line1(Str(<<"1", "5", "0">>))>>))
TxF == TxL("6", Str(<<"6", "0", "0">>), Arr(<<Line1(Num(50)), Null>>))
TxG == TxR("7", Str(<<"5">>), VISA)
TxH == TxL("8", Num(900), Arr(<<Line1(Num(200))>>))
TxI == TxRL("9", Str(<<"6", "0", "0">>), VISA, Arr(<<>>))
TxJ == TxL("0", Num(1), Arr(<<Line1(Num(101))>>))

\* A line with an Id next to its Amt
Line2(id, amt) == Obj((IdKey :> Str(S1(id))) @@ (AmtKey :> amt))
TxK == TxL("k", Str(<<"5", "0">>),
           Arr(<<Line2("a", Num(50)), Line2("b", Num(150)), Line2("c", Num(200))>>))

\* A large record without lines
TxM == Tx("m", Num(900))

EvalTransactions == {TxA, TxB, TxC, TxD, TxE, TxF, TxG, TxH, TxI, TxJ}

AmtField == AmtKey
LineAmtField == LinePrefix \o AmtKey
LineZeroAmtField == LinePrefix \o <<"0", ".">> \o AmtKey
RefNmField == RefKey \o <<".">> \o NmKey

AmtGt(lop) == Cond(AmtField, "gt", Num(500), lop)
LineGt(lop) == Cond(LineAmtField, "gt", Num(100), lop)
RefContains(lop) == Cond(RefNmField, "contains", Str(visa), lop)
LineNe(lop) == Cond(LineAmtField, "ne", Num(50), lop)
LineZero(lop) == Cond(LineZeroAmtField, "gt", Num(100), lop)

EvalConditions ==
  {AmtGt(NoOp), AmtGt("AND"), AmtGt("OR"),
   LineGt(NoOp), LineGt("AND"), LineGt("OR"),
   RefContains("AND"), RefContains("OR"),
   LineNe("OR"), LineZero("AND")}

RECURSIVE SeqsUpTo(_, _)
SeqsUpTo(S, n) ==
  IF n = 0 THEN {<<>>}
  ELSE LET shorter == SeqsUpTo(S, n - 1)
       IN shorter \cup {Append(q, x) : q \in {r \in shorter : Len(r) = n - 1}, x \in S}

(***************************************************************************)
(* executeRule: evidence, flagged transactions, execution summary          *)
(*                                                                         *)
(* Date.now() and new Date() are clock reads: execution_time, flagged_at,  *)
(* total_execution_time and executed_at are left out of the results.       *)
(***************************************************************************)
Rule(id, ruleType, conds, action, reason) ==
  [id |-> id, rule_type |-> ruleType, conditions |-> conds,
   action |-> action, reason |-> reason]

\* The index of the last line that satisfies the comparison, not the first
RECURSIVE FindLastIndexFrom(_, _, _, _, _)
FindLastIndexFrom(lines, i, lineFieldPath, operator, value) ==
  IF i > Len(lines) THEN -1
  ELSE LET later == FindLastIndexFrom(lines, i + 1, lineFieldPath, operator, value)
       IN IF later # -1 THEN later
          ELSE IF compare(getNestedValue(lines[i], lineFieldPath), operator, value)
          THEN i - 1
          ELSE -1

\* lines.findIndex(...), 0-based, -1 when no line satisfies the comparison
RECURSIVE FindIndexFrom(_, _, _, _, _)
FindIndexFrom(lines, i, lineFieldPath, operator, value) ==
  IF i > Len(lines) THEN -1
  ELSE IF compare(getNestedValue(lines[i], lineFieldPath), operator, value) THEN i - 1
  ELSE FindIndexFrom(lines, i + 1, lineFieldPath, operator, value)

\* lines.findIndex raises a TypeError when transaction.Line is not an array
EvidenceThrows(tx, condition) ==
  isLineField(condition.field) /\ ~IsArray(GetKey(tx, LineKey))

\* The callback without the test matchingLineIndex !== -1
EvidenceAlwaysLineData(tx, condition) ==
  LET actualValue == getNestedValue(tx, condition.field)
      flaggedFieldData ==
        IF isLineField(condition.field)
        THEN LET lines == GetKey(tx, LineKey).a
                 matchingLineIndex ==
                   FindIndexFrom(lines, 1, Substring(condition.field, 5),
                                 condition.operator, condition.value)
             IN [line_index |-> matchingLineIndex,
                 line_data |-> IF matchingLineIndex # -1
                               THEN lines[matchingLineIndex + 1]
                               ELSE Undef,
                 field_path |-> condition.field,
                 field_value |-> actualValue]
        ELSE LET fieldParts == Split(condition.field)
                 parentPath == Join(SubSeq(fieldParts, 1, Len(fieldParts) - 1))
                 fieldName == fieldParts[Len(fieldParts)]
             IN IF parentPath # <<>>
                THEN [parent_path |-> parentPath,
                      parent_object |-> getNestedValue(tx, parentPath),
                      field_name |-> fieldName,
                      field_value |-> actualValue]
                ELSE [field_name |-> condition.field,
                      field_value |-> actualValue,
                      parent_object |-> tx]
  IN [field |-> condition.field,
      operator |-> condition.operator,
      value |-> condition.value,
      actual_value |-> actualValue,
      flagged_field_data |-> flaggedFieldData]

\* The callback with actual_value read from the matching line
EvidenceActualFromLine(tx, condition) ==
  LET lineMatch ==
        IF isLineField(condition.field)
        THEN FindIndexFrom(GetKey(tx, LineKey).a, 1, Substring(condition.field, 5),
                           condition.operator, condition.value)
        ELSE -1
      actualValue ==
        IF lineMatch # -1
        THEN getNestedValue(GetKey(tx, LineKey).a[lineMatch + 1],
                            Substring(condition.field, 5))
        ELSE getNestedValue(tx, condition.field)
      flaggedFieldData ==
        IF isLineField(condition.field)
        THEN LET lines == GetKey(tx, LineKey).a
                 matchingLineIndex == lineMatch
             IN IF matchingLineIndex # -1
                THEN [line_index |-> matchingLineIndex,
                      line_data |-> lines[matchingLineIndex + 1],
                      field_path |-> condition.field,
                      field_value |-> actualValue]
                ELSE Null
        ELSE LET fieldParts == Split(condition.field)
                 parentPath == Join(SubSeq(fieldParts, 1, Len(fieldParts) - 1))
                 fieldName == fieldParts[Len(fieldParts)]
             IN IF parentPath # <<>>
                THEN [parent_path |-> parentPath,
                      parent_object |-> getNestedValue(tx, parentPath),
                      field_name |-> fieldName,
                      field_value |-> actualValue]
                ELSE [field_name |-> condition.field,
                      field_value |-> actualValue,
                      parent_object |-> tx]
  IN [field |-> condition.field,
      operator |-> condition.operator,
      value |-> condition.value,
      actual_value |-> actualValue,
      flagged_field_data |-> flaggedFieldData]

\* The callback with the transaction as parent_object of a dotted field too
EvidenceParentIsTransaction(tx, condition) ==
  LET actualValue == getNestedValue(tx, condition.field)
      flaggedFieldData ==
        IF isLineField(condition.field)
        THEN LET lines == GetKey(tx, LineKey).a
                 matchingLineIndex ==
                   FindIndexFrom(lines, 1, Substring(condition.field, 5),
                                 condition.operator, condition.value)
             IN IF matchingLineIndex # -1
                THEN [line_index |-> matchingLineIndex,
                      line_data |-> lines[matchingLineIndex + 1],
                      field_path |-> condition.field,
                      field_value |-> actualValue]
                ELSE Null
        ELSE LET fieldParts == Split(condition.field)
                 parentPath == Join(SubSeq(fieldParts, 1, Len(fieldParts) - 1))
                 fieldName == fieldParts[Len(fieldParts)]
             IN IF parentPath # <<>>
                THEN [parent_path |-> parentPath,
                      parent_object |-> tx,
                      field_name |-> fieldName,
                      field_value |-> actualValue]
                ELSE [field_name |-> condition.field,
                      field_value |-> actualValue,
                      parent_object |-> tx]
  IN [field |-> condition.field,
      operator |-> condition.operator,
      value |-> condition.value,
      actual_value |-> actualValue,
      flagged_field_data |-> flaggedFieldData]

\* The callback of rule.conditions.map, for a condition on which it does not throw
Evidence(tx, condition) ==
  LET actualValue == getNestedValue(tx, condition.field)
      flaggedFieldData ==
        IF isLineField(condition.field)
        THEN LET lines == GetKey(tx, LineKey).a
                 matchingLineIndex ==
                   FindIndexFrom(lines, 1, Substring(condition.field, 5),
                                 condition.operator, condition.value)
             IN IF matchingLineIndex # -1
                THEN [line_index |-> matchingLineIndex,
                      line_data |-> lines[matchingLineIndex + 1],
                      field_path |-> condition.field,
                      field_value |-> actualValue]
                ELSE Null
        ELSE LET fieldParts == Split(condition.field)
                 parentPath == Join(SubSeq(fieldParts, 1, Len(fieldParts) - 1))
                 fieldName == fieldParts[Len(fieldParts)]
             IN IF parentPath # <<>>
                THEN [parent_path |-> parentPath,
                      parent_object |-> getNestedValue(tx, parentPath),
                      field_name |-> fieldName,
                      field_value |-> actualValue]
                ELSE [field_name |-> condition.field,
                      field_value |-> actualValue,
                      parent_object |-> tx]
  IN [field |-> condition.field,
      operator |-> condition.operator,
      value |-> condition.value,
      actual_value |-> actualValue,
      flagged_field_data |-> flaggedFieldData]

\* rule.conditions.map(...) throws when conditions is missing or a callback throws
FlaggingThrows(rule, tx) ==
  \/ IsAbsent(rule.conditions)
  \/ \E i \in 1..Len(rule.conditions.a) : EvidenceThrows(tx, rule.conditions.a[i])

\* Mutant of FlaggedTransaction: evidence only for the conditions that passed
FlaggedTransactionPassedOnly(rule, tx) ==
  [id |-> GetKey(tx, IdKey),
   transaction_data |-> tx,
   matched_conditions |->
     LET passed == SelectSeq(rule.conditions.a, LAMBDA c : evaluateCondition(tx, c))
     IN [i \in 1..Len(passed) |-> Evidence(tx, passed[i])],
   action |-> rule.action,
   reason |-> rule.reason]

FlaggedTransaction(rule, tx) ==
  [id |-> GetKey(tx, IdKey),
   transaction_data |-> tx,
   matched_conditions |->
     [i \in 1..Len(rule.conditions.a) |-> Evidence(tx, rule.conditions.a[i])],
   action |-> rule.action,
   reason |-> rule.reason]

\* The loop with a try/catch around each transaction: a fault ends the loop
\* and the transactions flagged before it are reported
RECURSIVE FlagLoopKeepsProcessed(_, _, _, _)
FlagLoopKeepsProcessed(rule, transactions, i, flaggedTransactions) ==
  IF i > Len(transactions) THEN [threw |-> FALSE, flagged |-> flaggedTransactions]
  ELSE IF ~evaluateConditions(transactions[i], rule.conditions)
  THEN FlagLoopKeepsProcessed(rule, transactions, i + 1, flaggedTransactions)
  ELSE IF FlaggingThrows(rule, transactions[i])
  THEN [threw |-> FALSE, flagged |-> flaggedTransactions]
  ELSE FlagLoopKeepsProcessed(rule, transactions, i + 1,
                              Append(flaggedTransactions,
                                     FlaggedTransaction(rule, transactions[i])))

\* The loop with unshift in place of push: flagged transactions in reverse
RECURSIVE FlagLoopUnshift(_, _, _, _)
FlagLoopUnshift(rule, transactions, i, flaggedTransactions) ==
  IF i > Len(transactions) THEN [threw |-> FALSE, flagged |-> flaggedTransactions]
  ELSE IF ~evaluateConditions(transactions[i], rule.conditions)
  THEN FlagLoopUnshift(rule, transactions, i + 1, flaggedTransactions)
  ELSE IF FlaggingThrows(rule, transactions[i])
  THEN [threw |-> TRUE, flagged |-> <<>>]
  ELSE FlagLoopUnshift(rule, transactions, i + 1,
                       <<FlaggedTransaction(rule, transactions[i])>> \o flaggedTransactions)

\* The loop over the batch: the flagged transactions, or an exception
RECURSIVE FlagLoop(_, _, _, _)
FlagLoop(rule, transactions, i, flaggedTransactions) ==
  IF i > Len(transactions) THEN [threw |-> FALSE, flagged |-> flaggedTransactions]
  ELSE IF ~evaluateConditions(transactions[i], rule.conditions)
  THEN FlagLoop(rule, transactions, i + 1, flaggedTransactions)
  ELSE IF FlaggingThrows(rule, transactions[i])
  THEN [threw |-> TRUE, flagged |-> <<>>]
  ELSE FlagLoop(rule, transactions, i + 1,
                Append(flaggedTransactions, FlaggedTransaction(rule, transactions[i])))

\* Number.prototype.toFixed(2) of a non-negative hundredths count
Pad2(n) == <<Digits[(n \div 10) + 1], Digits[(n % 10) + 1]>>

\* (flagged / total * 100).toFixed(2) + '%'
FlagRate(flagged, total) ==
  IF total > 0
  THEN LET hundredths == (2 * flagged * 10000 + total) \div (2 * total)
       IN NumToStr(hundredths \div 100) \o <<".">> \o Pad2(hundredths % 100) \o <<"%">>
  ELSE <<"0", "%">>

RuleFailure(message) ==
  [success |-> FALSE, error |-> "Failed to execute rule: " \o message, data |-> Null]

\* The result for an empty batch
EmptyResult(rule, entity) ==
  [success |-> TRUE,
   data |-> [rule_id |-> rule.id,
             rule_type |-> rule.rule_type,
             entity |-> entity,
             total_transactions |-> 0,
             flagged_transactions |-> <<>>,
             execution_summary |-> [total_checked |-> 0, flagged_count |-> 0]]]

\* The body of executeRule once fetchQuickBooksData has returned or thrown
ExecuteRuleResult(rule, entity, fetch) ==
  IF ~fetch.ok THEN RuleFailure(fetch.message)
  ELSE IF Len(fetch.records) = 0 THEN EmptyResult(rule, entity)
  ELSE LET transactions == fetch.records
           loop == FlagLoop(rule, transactions, 1, <<>>)
       IN IF loop.threw THEN RuleFailure("TypeError")
          ELSE [success |-> TRUE,
                data |-> [rule_id |-> rule.id,
                          rule_type |-> rule.rule_type,
                          entity |-> entity,
                          total_transactions |-> Len(transactions),
                          flagged_transactions |-> loop.flagged,
                          execution_summary |->
                            [total_checked |-> Len(transactions),
                             flagged_count |-> Len(loop.flagged),
                             flag_rate |-> FlagRate(Len(loop.flagged), Len(transactions))]]]

(***************************************************************************)
(* executeMultipleRules: summary of the individual results                 *)
(***************************************************************************)
CountSuccess(results) == Cardinality({i \in 1..Len(results) : results[i].success})

RECURSIVE SumChecked(_, _)
SumChecked(results, i) ==
  IF i > Len(results) THEN 0
  ELSE (IF results[i].success /\ results[i].data # Null
        THEN results[i].data.execution_summary.total_checked ELSE 0)
       + SumChecked(results, i + 1)

\* The flagged total accumulated from total_checked
RECURSIVE SumFlaggedFromChecked(_, _)
SumFlaggedFromChecked(results, i) ==
  IF i > Len(results) THEN 0
  ELSE (IF results[i].success /\ results[i].data # Null
        THEN results[i].data.execution_summary.total_checked ELSE 0)
       + SumFlaggedFromChecked(results, i + 1)

RECURSIVE SumFlagged(_, _)
SumFlagged(results, i) ==
  IF i > Len(results) THEN 0
  ELSE (IF results[i].success /\ results[i].data # Null
        THEN results[i].data.execution_summary.flagged_count ELSE 0)
       + SumFlagged(results, i + 1)

\* The batch result with success only when some rule succeeded
BatchResultNeedsASuccess(ruleList, results) ==
  [success |-> Len(results) = 0 \/ CountSuccess(results) > 0,
   data |-> [summary |-> [total_rules_executed |-> Len(ruleList),
                          successful_executions |-> CountSuccess(results),
                          failed_executions |-> Len(results) - CountSuccess(results),
                          total_transactions_checked |-> SumChecked(results, 1),
                          total_transactions_flagged |-> SumFlagged(results, 1)],
             individual_results |-> results]]

BatchResult(ruleList, results) ==
  [success |-> TRUE,
   data |-> [summary |-> [total_rules_executed |-> Len(ruleList),
                          successful_executions |-> CountSuccess(results),
                          failed_executions |-> Len(results) - CountSuccess(results),
                          total_transactions_checked |-> SumChecked(results, 1),
                          total_transactions_flagged |-> SumFlagged(results, 1)],
             individual_results |-> results]]

BatchFailure(message) ==
  [success |-> FALSE, error |-> "Failed to execute rules: " \o message, data |-> Null]

(***************************************************************************)
(* Inputs of the engine                                                    *)
(***************************************************************************)
RuleAmt == Rule("r1", "amount", Arr(<<AmtGt(NoOp)>>), "flag", "large amount")
RuleLineOr == Rule("r2", "line", Arr(<<LineGt(NoOp), AmtGt("OR")>>), "review", "large line")
RuleEmpty == Rule("r3", "all", Arr(<<>>), "approve", "everything")
RuleNoConds == Rule("r4", "broken", Undef, "reject", "no conditions")

EngineRules == {RuleAmt, RuleLineOr, RuleEmpty, RuleNoConds}

\* A rule on a dotted field, and the rules a single executeRule call is given
RuleRef == Rule("r5", "vendor", Arr(<<RefContains("AND"), AmtGt("OR")>>), "flag", "card payment")
\* A rule whose Line condition names the line by its index
RuleLineZero ==
  Rule("r7", "line", Arr(<<LineZero("AND"), AmtGt("OR")>>), "review", "first line")
SingleRules == EngineRules \cup {RuleRef, RuleLineZero}

FetchOk(records) == [ok |-> TRUE, records |-> records, message |-> ""]
FetchError == [ok |-> FALSE, records |-> <<>>, message |-> "QuickBooks API error: 401 Unauthorized"]

Batches == {<<>>, <<TxA, TxB, TxK>>, <<TxE, TxB, TxF>>, <<TxA, TxC>>, <<TxA, TxM>>}

ConnectionParams == [k |-> "obj", realmId |-> "realm", accessToken |-> "token", entity |-> "Purchase"]

ParamsArgs == {ConnectionParams, Undef}

\* A rule list argument: an array of rules, or null
RuleListArgs == {Arr(q) : q \in SeqsUpTo(EngineRules, MaxRules)} \cup {Null}

(***************************************************************************)
(* State                                                                   *)
(***************************************************************************)
VARIABLES
  transaction,   \* evaluation: the transaction under evaluation
  conditions,    \* evaluation: the ordered condition list
  evalOut,       \* evaluation: outcome of evaluateConditions and of each condition
  pc,            \* engine: "idle", "fetching", "returned", "threw", "rejected"
                 \*         or "answered" (a route answered without the engine)
  call,          \* engine: the call in progress, its rule list and parameters,
                 \*         and the execution route that made it, if any
  idx,           \* engine: position in the rule list of the rule in progress
  results,       \* engine: the individual results pushed so far
  fetched,       \* engine: what fetchQuickBooksData produced for each rule so far
  ret,           \* engine: the value the call returned
  rulesStorage,  \* rule store: the stored rules, in insertion order
  versionHistory,\* rule store: the log of created versions
  nextId,        \* rule store: the number of identifiers uuidv4 has produced
  response       \* routes: the answer to the last request (a rollback answer
                 \*         is kept with the parameters of its request)

evalVars == <<transaction, conditions, evalOut>>
engineVars == <<pc, call, idx, results, fetched, ret>>
storeVars == <<rulesStorage, versionHistory, nextId, response>>
vars == <<transaction, conditions, evalOut, pc, call, idx, results, fetched, ret,
          rulesStorage, versionHistory, nextId, response>>

NoCall == [fn |-> "none", rules |-> Null, params |-> Undef, route |-> "none"]
NoReturn == [k |-> "none"]

EngineIdle ==
  /\ pc = "idle"
  /\ call = NoCall
  /\ idx = 0
  /\ results = <<>>
  /\ fetched = <<>>
  /\ ret = NoReturn

NoResponse == [op |-> "none", status |-> 0]

StoreEmpty ==
  /\ rulesStorage = <<>>
  /\ versionHistory = <<>>
  /\ nextId = 0
  /\ response = NoResponse

EvalIdle ==
  /\ transaction = TxB
  /\ conditions = <<>>
  /\ evalOut = [done |-> FALSE, isFlagged |-> FALSE, condResults |-> <<>>]

NotEvaluated == [done |-> FALSE, isFlagged |-> FALSE, condResults |-> <<>>]

\* Evaluation of one condition list against one transaction
EvalInit ==
  /\ transaction \in EvalTransactions
  /\ conditions \in SeqsUpTo(EvalConditions, MaxConds)
  /\ evalOut = NotEvaluated
  /\ EngineIdle
  /\ StoreEmpty

Evaluate ==
  /\ ~evalOut.done
  /\ evalOut' = [done |-> TRUE,
                 isFlagged |-> evaluateConditions(transaction, Arr(conditions)),
                 condResults |-> [i \in 1..Len(conditions) |->
                                    evaluateCondition(transaction, conditions[i])]]
  /\ UNCHANGED <<transaction, conditions>>
  /\ UNCHANGED <<engineVars, storeVars>>

EvalNext == Evaluate

EvalSpec == EvalInit /\ [][EvalNext]_vars

(***************************************************************************)
(* getNestedValue over a pool of roots and paths: the transaction is the   *)
(* root and the only condition carries the path                            *)
(***************************************************************************)
MaxPath == 3

PathSegments == {AmtKey, LineKey, RefKey, NmKey, <<"0">>, <<"1">>, <<"0", "A">>}

ResolvePaths == {Join(segs) : segs \in SeqsUpTo(PathSegments, MaxPath) \ {<<>>}}

\* Records with and without lines, a Line that is no array, a line that is
\* null, a Ref that is null, and a root that is itself null
ResolveRoots == {TxA, TxB, TxC, TxF, TxK, Obj(RefKey :> Null), Null}

ResolveInit ==
  /\ transaction \in ResolveRoots
  /\ \E path \in ResolvePaths : conditions = <<Cond(path, "eq", Null, NoOp)>>
  /\ evalOut = [done |-> FALSE, value |-> Undef]
  /\ EngineIdle
  /\ StoreEmpty

\* getNestedValue(transaction, path) is called
Resolve ==
  /\ ~evalOut.done
  /\ evalOut' = [done |-> TRUE, value |-> getNestedValue(transaction, conditions[1].field)]
  /\ UNCHANGED <<transaction, conditions>>
  /\ UNCHANGED <<engineVars, storeVars>>

ResolveSpec == ResolveInit /\ [][Resolve]_vars

(***************************************************************************)
(* compare over a pool of values: the transaction holds one actual value   *)
(* (or none) and the condition list applies every operator to one field    *)
(* with one target                                                         *)
(***************************************************************************)
\* The operators of compare, and one that compare does not know
CompareOperators ==
  <<"eq", "ne", "gt", "lt", "contains", "not_contains", "in", "not_in", "matches">>

\* Numbers, numeric strings, non-numeric strings, the empty string, booleans
Scalars ==
  {Num(0), Num(1), Num(5),
   Str(<<"5">>), Str(<<"0", "5">>), Str(<<"1">>),
   Str(<<"a", "b", "c">>), Str(<<"t", "r", "u", "e">>), Str(<<>>),
   Bool(TRUE), Bool(FALSE)}

\* A rule is JSON: a target is a scalar, null or an array
CompareTargets ==
  Scalars \cup {Null, Arr(<<>>), Arr(<<Num(5), Str(<<"a", "b", "c">>)>>), Arr(<<Str(<<"5">>), Bool(TRUE)>>)}

\* Records whose Amt is a scalar, is null, or is missing
CompareTransactions ==
  {Obj(AmtKey :> v) : v \in Scalars \cup {Null}} \cup {Obj(IdKey :> Str(<<"1">>))}

CompareInit ==
  /\ transaction \in CompareTransactions
  /\ \E field \in {AmtField, RefNmField} : \E value \in CompareTargets :
       conditions = [i \in 1..Len(CompareOperators) |->
                       Cond(field, CompareOperators[i], value, NoOp)]
  /\ evalOut = NotEvaluated
  /\ EngineIdle
  /\ StoreEmpty

CompareSpec == CompareInit /\ [][EvalNext]_vars

(***************************************************************************)
(* The engine: executeRule and executeMultipleRules                        *)
(*                                                                         *)
(* Both are async functions whose only suspension point is the await of    *)
(* fetchQuickBooksData inside executeRule; everything between two awaits   *)
(* is one step.  What a fetch returns is whatever the data source holds    *)
(* when it is asked.                                                       *)
(***************************************************************************)
\* executeRule(rule, params) is called
CallExecuteRule ==
  /\ pc = "idle"
  /\ \E rule \in SingleRules, params \in ParamsArgs :
       /\ call' = [fn |-> "executeRule", rules |-> Arr(<<rule>>), params |-> params,
                   route |-> "none"]
       /\ IF IsAbsent(params)
          THEN pc' = "threw" /\ idx' = 0
          ELSE pc' = "fetching" /\ idx' = 1
  /\ UNCHANGED <<results, fetched, ret>>
  /\ UNCHANGED <<evalVars, storeVars>>

\* executeMultipleRules(rules, params) is called
CallExecuteMultipleRules ==
  /\ pc = "idle"
  /\ \E ruleList \in RuleListArgs, params \in ParamsArgs :
       /\ call' = [fn |-> "executeMultipleRules", rules |-> ruleList, params |-> params,
                   route |-> "none"]
       /\ IF IsAbsent(params)
          THEN pc' = "threw" /\ idx' = 0 /\ ret' = ret
          ELSE IF IsAbsent(ruleList)
          THEN pc' = "returned" /\ idx' = 0 /\ ret' = BatchFailure("TypeError")
          ELSE IF Len(ruleList.a) = 0
          THEN pc' = "returned" /\ idx' = 0 /\ ret' = BatchResult(<<>>, <<>>)
          ELSE pc' = "fetching" /\ idx' = 1 /\ ret' = ret
  /\ UNCHANGED <<results, fetched>>
  /\ UNCHANGED <<evalVars, storeVars>>

(***************************************************************************)
(* The execution routes POST /rule and POST /rules: validation of the      *)
(* request body, then the engine call; the answer is sent when the engine  *)
(* call returns                                                            *)
(***************************************************************************)
\* A condition without an operator property, and a rule that holds it
CondNoOperator == Cond(AmtField, NoOp, Num(500), NoOp)
RuleNoOperator == Rule("r6", "amount", Arr(<<CondNoOperator>>), "flag", "no operator")

\* A request body without accessToken
ParamsNoToken == [k |-> "obj", realmId |-> "realm", entity |-> "Purchase"]

\* Bodies of POST /rule: the rule property may be missing
RuleRequests ==
  [rule : {RuleAmt, RuleNoConds, RuleNoOperator, Undef},
   params : {ConnectionParams, ParamsNoToken}]

\* Bodies of POST /rules
RulesRequests ==
  [rules : {Undef, Arr(<<>>), Arr(<<RuleAmt>>), Arr(<<RuleAmt, RuleNoOperator>>),
            Arr(<<RuleAmt, RuleNoConds, RuleEmpty>>), Arr(<<RuleLineOr, RuleEmpty>>)},
   params : {ConnectionParams, ParamsNoToken}]

\* !realmId || !accessToken || !entity is false
HasConnection(params) == {"realmId", "accessToken", "entity"} \subseteq DOMAIN params

\* !rule.conditions || !Array.isArray(rule.conditions) is false
HasConditionsArray(rule) == ~IsAbsent(rule.conditions) /\ IsArray(rule.conditions)

\* The object { realmId, accessToken, entity } handed to the engine
EngineParams(params) ==
  [k |-> "obj", realmId |-> params.realmId, accessToken |-> params.accessToken,
   entity |-> params.entity]

\* What a route answers once the engine call has returned
RouteAnswer(route, result) ==
  [op |-> route, status |-> IF result.success THEN 200 ELSE 500]

\* POST /rule
PostRule ==
  /\ pc = "idle"
  /\ \E body \in RuleRequests :
       IF \/ body.rule = Undef
          \/ ~HasConnection(body.params)
          \/ ~HasConditionsArray(body.rule)
       THEN /\ call' = [fn |-> "none", rules |-> Arr(<<body.rule>>),
                        params |-> body.params, route |-> "rule"]
            /\ response' = [op |-> "rule", status |-> 400]
            /\ pc' = "rejected"
            /\ idx' = idx
       ELSE /\ call' = [fn |-> "executeRule", rules |-> Arr(<<body.rule>>),
                        params |-> EngineParams(body.params), route |-> "rule"]
            /\ response' = NoResponse
            /\ pc' = "fetching"
            /\ idx' = 1
  /\ UNCHANGED <<results, fetched, ret>>
  /\ UNCHANGED <<rulesStorage, versionHistory, nextId>>
  /\ UNCHANGED evalVars

\* POST /rules
PostRules ==
  /\ pc = "idle"
  /\ \E body \in RulesRequests :
       IF \/ IsAbsent(body.rules) \/ ~IsArray(body.rules) \/ Len(body.rules.a) = 0
          \/ ~HasConnection(body.params)
          \/ \E i \in 1..Len(body.rules.a) : ~HasConditionsArray(body.rules.a[i])
       THEN /\ call' = [fn |-> "none", rules |-> body.rules,
                        params |-> body.params, route |-> "rules"]
            /\ response' = [op |-> "rules", status |-> 400]
            /\ pc' = "rejected"
            /\ idx' = idx
       ELSE /\ call' = [fn |-> "executeMultipleRules", rules |-> body.rules,
                        params |-> EngineParams(body.params), route |-> "rules"]
            /\ response' = NoResponse
            /\ pc' = "fetching"
            /\ idx' = 1
  /\ UNCHANGED <<results, fetched, ret>>
  /\ UNCHANGED <<rulesStorage, versionHistory, nextId>>
  /\ UNCHANGED evalVars

\* The rules of POST /all-active: is_active true, false or missing
Activated(rule, active) == [is_active |-> active] @@ rule

AllActiveRequests ==
  [rules : {Undef,
            Arr(<<Activated(RuleAmt, FALSE)>>),
            Arr(<<Activated(RuleLineOr, FALSE), Activated(RuleAmt, FALSE)>>),
            Arr(<<RuleAmt, Activated(RuleLineOr, FALSE), Activated(RuleEmpty, TRUE)>>),
            Arr(<<Activated(RuleAmt, FALSE), RuleNoConds, Activated(RuleLineOr, TRUE)>>)},
   params : {ConnectionParams, ParamsNoToken}]

\* rules.filter(rule => rule.is_active), which drops a rule without is_active
ActiveRulesTruthy(rules) ==
  SelectSeq(rules, LAMBDA rule : "is_active" \in DOMAIN rule /\ rule.is_active = TRUE)

\* rules.filter(rule => rule.is_active !== false)
ActiveRules(rules) ==
  SelectSeq(rules, LAMBDA rule : ~("is_active" \in DOMAIN rule /\ rule.is_active = FALSE))

\* The data of the answer when no rule is active
NoActiveRulesData ==
  [summary |-> [total_rules_executed |-> 0,
                successful_executions |-> 0,
                failed_executions |-> 0,
                total_transactions_checked |-> 0,
                total_transactions_flagged |-> 0],
   individual_results |-> <<>>]

\* POST /all-active
PostAllActive ==
  /\ pc = "idle"
  /\ \E body \in AllActiveRequests :
       LET request == [fn |-> "none", rules |-> body.rules, params |-> body.params,
                       route |-> "all-active", supplied |-> body.rules]
       IN IF \/ ~HasConnection(body.params)
             \/ IsAbsent(body.rules) \/ ~IsArray(body.rules) \/ Len(body.rules.a) = 0
          THEN /\ call' = request
               /\ response' = [op |-> "all-active", status |-> 400]
               /\ pc' = "rejected"
               /\ idx' = idx
          ELSE LET activeRules == ActiveRules(body.rules.a)
               IN IF Len(activeRules) = 0
                  THEN /\ call' = request
                       /\ response' = [op |-> "all-active", status |-> 200,
                                       data |-> NoActiveRulesData]
                       /\ pc' = "answered"
                       /\ idx' = idx
                  ELSE /\ call' = [request EXCEPT !.fn = "executeMultipleRules",
                                                  !.rules = Arr(activeRules),
                                                  !.params = EngineParams(body.params)]
                       /\ response' = NoResponse
                       /\ pc' = "fetching"
                       /\ idx' = 1
  /\ UNCHANGED <<results, fetched, ret>>
  /\ UNCHANGED <<rulesStorage, versionHistory, nextId>>
  /\ UNCHANGED evalVars

\* conditions with the default logical_operator written into each condition
DefaultsWritten(conds) ==
  IF IsArray(conds)
  THEN Arr([c \in 1..Len(conds.a) |->
              IF conds.a[c].logical_operator = NoOp
              THEN [conds.a[c] EXCEPT !.logical_operator = "AND"]
              ELSE conds.a[c]])
  ELSE conds

\* FetchReturns with an evaluation that stores the default logical_operator
\* in the conditions of the rule it is given
FetchReturnsWritesDefaults(fetch) ==
  /\ pc = "fetching"
  /\ LET rule == call.rules.a[idx]
         result == ExecuteRuleResult(rule, call.params.entity, fetch)
     IN /\ fetched' = Append(fetched, fetch)
        /\ IF call.fn = "executeRule"
           THEN /\ ret' = result
                /\ pc' = "returned"
                /\ UNCHANGED <<idx, results>>
           ELSE /\ results' = Append(results, result)
                /\ IF idx < Len(call.rules.a)
                   THEN /\ idx' = idx + 1
                        /\ UNCHANGED <<pc, ret>>
                   ELSE /\ ret' = BatchResult(call.rules.a, results')
                        /\ pc' = "returned"
                        /\ idx' = idx
  /\ response' = IF call.route # "none" /\ pc' = "returned"
                 THEN RouteAnswer(call.route, ret')
                 ELSE response
  /\ call' = [call EXCEPT !.rules =
                Arr([j \in 1..Len(call.rules.a) |->
                       IF j = idx
                       THEN [call.rules.a[j] EXCEPT
                               !.conditions = DefaultsWritten(call.rules.a[j].conditions)]
                       ELSE call.rules.a[j]])]
  /\ UNCHANGED <<rulesStorage, versionHistory, nextId>>
  /\ UNCHANGED evalVars

\* FetchReturns with results.unshift in place of results.push
FetchReturnsUnshift(fetch) ==
  /\ pc = "fetching"
  /\ LET rule == call.rules.a[idx]
         result == ExecuteRuleResult(rule, call.params.entity, fetch)
     IN /\ fetched' = Append(fetched, fetch)
        /\ IF call.fn = "executeRule"
           THEN /\ ret' = result
                /\ pc' = "returned"
                /\ UNCHANGED <<idx, results>>
           ELSE /\ results' = <<result>> \o results
                /\ IF idx < Len(call.rules.a)
                   THEN /\ idx' = idx + 1
                        /\ UNCHANGED <<pc, ret>>
                   ELSE /\ ret' = BatchResult(call.rules.a, results')
                        /\ pc' = "returned"
                        /\ idx' = idx
  /\ response' = IF call.route # "none" /\ pc' = "returned"
                 THEN RouteAnswer(call.route, ret')
                 ELSE response
  /\ UNCHANGED call
  /\ UNCHANGED <<rulesStorage, versionHistory, nextId>>
  /\ UNCHANGED evalVars

\* Mutant of FetchReturns: the batch stops at the first failing rule
FetchReturnsAbortOnFailure(fetch) ==
  /\ pc = "fetching"
  /\ LET rule == call.rules.a[idx]
         result == ExecuteRuleResult(rule, call.params.entity, fetch)
     IN /\ fetched' = Append(fetched, fetch)
        /\ IF call.fn = "executeRule"
           THEN /\ ret' = result
                /\ pc' = "returned"
                /\ UNCHANGED <<idx, results>>
           ELSE /\ results' = Append(results, result)
                /\ IF idx < Len(call.rules.a) /\ result.success
                   THEN /\ idx' = idx + 1
                        /\ UNCHANGED <<pc, ret>>
                   ELSE /\ ret' = BatchResult(call.rules.a, results')
                        /\ pc' = "returned"
                        /\ idx' = idx
  /\ response' = IF call.route # "none" /\ pc' = "returned"
                 THEN RouteAnswer(call.route, ret')
                 ELSE response
  /\ UNCHANGED call
  /\ UNCHANGED <<rulesStorage, versionHistory, nextId>>
  /\ UNCHANGED evalVars

\* The fetch of the rule in progress completes; executeRule runs to its return
FetchReturns(fetch) ==
  /\ pc = "fetching"
  /\ LET rule == call.rules.a[idx]
         result == ExecuteRuleResult(rule, call.params.entity, fetch)
     IN /\ fetched' = Append(fetched, fetch)
        /\ IF call.fn = "executeRule"
           THEN /\ ret' = result
                /\ pc' = "returned"
                /\ UNCHANGED <<idx, results>>
           ELSE /\ results' = Append(results, result)
                /\ IF idx < Len(call.rules.a)
                   THEN /\ idx' = idx + 1
                        /\ UNCHANGED <<pc, ret>>
                   ELSE /\ ret' = BatchResult(call.rules.a, results')
                        /\ pc' = "returned"
                        /\ idx' = idx
  /\ response' = IF call.route # "none" /\ pc' = "returned"
                 THEN RouteAnswer(call.route, ret')
                 ELSE response
  /\ UNCHANGED call
  /\ UNCHANGED <<rulesStorage, versionHistory, nextId>>
  /\ UNCHANGED evalVars

FetchSucceeds == \E records \in Batches : FetchReturns(FetchOk(records))

FetchFails == FetchReturns(FetchError)

Init == EvalIdle /\ EngineIdle /\ StoreEmpty

Next ==
  \/ CallExecuteRule
  \/ CallExecuteMultipleRules
  \/ PostRule
  \/ PostRules
  \/ PostAllActive
  \/ FetchSucceeds
  \/ FetchFails

Spec == Init /\ [][Next]_vars

\* Every request to the data source eventually returns or fails
LiveSpec == Spec /\ WF_vars(FetchSucceeds \/ FetchFails)

(***************************************************************************)
(* The rule store: the /rules routes over rulesStorage and versionHistory  *)
(*                                                                         *)
(* An identifier n stands for the n-th value produced by uuidv4.  The      *)
(* created_at and updated_at timestamps are clock reads and are left out.  *)
(* A stored rule is a function from property names to values, so that the  *)
(* object spreads of the routes are function overrides.                    *)
(***************************************************************************)
StoredConds1 == <<AmtGt(NoOp)>>
StoredConds2 == <<LineGt(NoOp)>>

Parsed(ruleType, conds, action) ==
  [rule_type |-> ruleType, conditions |-> conds, action |-> action,
   reason |-> "audit", confidence_score |-> 90]

ParsedRules ==
  {Parsed("amount", StoredConds1, "flag"),
   Parsed("amount", StoredConds2, "review")}

RuleTypes == {"amount", "vendor"}

\* Request bodies of POST /rules: with and without parsedRule
CreateBodies ==
  {[parsedRule |-> p, originalInstruction |-> "flag it", createdBy |-> "user"] : p \in ParsedRules}
  \cup {[originalInstruction |-> "flag it", createdBy |-> "user"]}

\* Request bodies of PUT /rules/:id
UpdateBodies ==
  {[is_active |-> FALSE], [version |-> 1]}

Imported(id, ruleType, version, active) ==
  [id |-> id, version |-> version, rule_type |-> ruleType, conditions |-> StoredConds1,
   action |-> "flag", reason |-> "imported", original_instruction |-> "import",
   created_by |-> "user", is_active |-> active, confidence_score |-> 80]

\* Request bodies of POST /rules/import: rules is an array of well-formed
\* rules, an array with a rule that lacks its action, or not an array
ImportBodies ==
  {[rules |-> Arr(<<Imported(101, "amount", 1, TRUE), Imported(102, "vendor", 1, TRUE)>>)],
   [rules |-> Arr(<<[id |-> 103, version |-> 1, rule_type |-> "amount",
                     conditions |-> StoredConds1]>>)],
   [rules |-> Null]}

RequestIds == (1..MaxIds) \cup {101}

VersionParams == {<<"1">>, <<"2">>, <<"x">>}

\* rule.is_active as a truth value
IsActive(rule) == "is_active" \in DOMAIN rule /\ rule.is_active

\* The least position in 1..Len(rules) that belongs to hits, 0 when there is none
\* (Array.prototype.find and findIndex return the first match)
FirstOf(hits) == IF hits = {} THEN 0 ELSE CHOOSE i \in hits : \A j \in hits : i <= j

\* rulesStorage.find(rule => same rule_type, active, same serialized conditions);
\* on the condition lists of the pool JSON.stringify is injective
FindExisting(rules, parsedRule) ==
  FirstOf({i \in 1..Len(rules) : /\ rules[i].rule_type = parsedRule.rule_type
                                  /\ IsActive(rules[i])
                                  /\ rules[i].conditions = parsedRule.conditions})

\* rulesStorage.findIndex(r => r.id === id)
FindById(rules, id) == FirstOf({i \in 1..Len(rules) : rules[i].id = id})

\* parseInt of a route parameter over digits and letters
parseInt(s) ==
  IF DigitPrefixLen(s) = 0 THEN NaN
  ELSE Number(DigitsValue(SubSeq(s, 1, DigitPrefixLen(s))))

\* rulesStorage.find(rule => rule.rule_type === ruleType && rule.version === parseInt(version))
FindVersion(rules, ruleType, version) ==
  FirstOf({i \in 1..Len(rules) : /\ rules[i].rule_type = ruleType
                                  /\ parseInt(version).ok
                                  /\ rules[i].version = parseInt(version).n})

\* POST /rules
CreateRule ==
  /\ nextId < MaxIds
  /\ Len(rulesStorage) < MaxStored
  /\ \E body \in CreateBodies :
       IF "parsedRule" \notin DOMAIN body
       THEN /\ response' = [op |-> "create", status |-> 400]
            /\ UNCHANGED <<rulesStorage, versionHistory, nextId>>
       ELSE LET parsedRule == body.parsedRule
                existing == FindExisting(rulesStorage, parsedRule)
                newRule ==
                  IF existing # 0
                  THEN [id |-> nextId + 1,
                        version |-> rulesStorage[existing].version + 1,
                        original_instruction |-> body.originalInstruction,
                        created_by |-> body.createdBy,
                        confidence_score |-> parsedRule.confidence_score]
                       @@ rulesStorage[existing]
                  ELSE [id |-> nextId + 1,
                        version |-> 1,
                        rule_type |-> parsedRule.rule_type,
                        conditions |-> parsedRule.conditions,
                        action |-> parsedRule.action,
                        reason |-> parsedRule.reason,
                        original_instruction |-> body.originalInstruction,
                        created_by |-> body.createdBy,
                        is_active |-> TRUE,
                        confidence_score |-> parsedRule.confidence_score]
                deactivated ==
                  IF existing # 0
                  THEN [rulesStorage EXCEPT ![existing] =
                          [is_active |-> FALSE] @@ rulesStorage[existing]]
                  ELSE rulesStorage
            IN /\ rulesStorage' = Append(deactivated, newRule)
               /\ versionHistory' =
                    Append(versionHistory,
                           [rule_id |-> newRule.id, rule_type |-> newRule.rule_type,
                            version |-> newRule.version, created_by |-> newRule.created_by,
                            action |-> "created"])
               /\ nextId' = nextId + 1
               /\ response' = [op |-> "create", status |-> 201]
  /\ UNCHANGED <<evalVars, engineVars>>

\* PUT /rules/:id
UpdateRule ==
  /\ \E id \in RequestIds, updates \in UpdateBodies :
       LET ruleIndex == FindById(rulesStorage, id)
       IN IF ruleIndex = 0
          THEN /\ response' = [op |-> "update", status |-> 404]
               /\ UNCHANGED rulesStorage
          ELSE /\ rulesStorage' =
                    [rulesStorage EXCEPT ![ruleIndex] = updates @@ rulesStorage[ruleIndex]]
               /\ response' = [op |-> "update", status |-> 200]
  /\ UNCHANGED <<versionHistory, nextId>>
  /\ UNCHANGED <<evalVars, engineVars>>

\* DELETE /rules/:id
DeleteRule ==
  /\ \E id \in RequestIds :
       LET remaining == SelectSeq(rulesStorage, LAMBDA rule : rule.id # id)
       IN /\ rulesStorage' = remaining
          /\ response' = [op |-> "delete",
                          status |-> IF Len(remaining) = Len(rulesStorage) THEN 404 ELSE 200]
  /\ UNCHANGED <<versionHistory, nextId>>
  /\ UNCHANGED <<evalVars, engineVars>>

\* The rollback without the forEach that deactivates the active rules
RollbackStoreActivatesOnly(store, ruleType, version) ==
  LET target == FindVersion(store, ruleType, version)
  IN [i \in 1..Len(store) |->
        IF i = target THEN [is_active |-> TRUE] @@ store[i] ELSE store[i]]

\* POST /rules/rollback/:ruleType/:version
RollbackStore(store, ruleType, version) ==
  LET target == FindVersion(store, ruleType, version)
  IN [i \in 1..Len(store) |->
        IF i = target THEN [is_active |-> TRUE] @@ store[i]
        ELSE IF store[i].rule_type = ruleType /\ IsActive(store[i])
        THEN [is_active |-> FALSE] @@ store[i]
        ELSE store[i]]

Rollback ==
  /\ \E ruleType \in RuleTypes, version \in VersionParams :
       LET target == FindVersion(rulesStorage, ruleType, version)
       IN IF target = 0
          THEN /\ response' = [op |-> "rollback", status |-> 404,
                               rule_type |-> ruleType, version |-> version]
               /\ UNCHANGED rulesStorage
          ELSE /\ rulesStorage' = RollbackStore(rulesStorage, ruleType, version)
               /\ response' = [op |-> "rollback", status |-> 200,
                               rule_type |-> ruleType, version |-> version]
  /\ UNCHANGED <<versionHistory, nextId>>
  /\ UNCHANGED <<evalVars, engineVars>>

\* The structure validation of POST /rules/import
ValidImport(rule) ==
  /\ "id" \in DOMAIN rule
  /\ "rule_type" \in DOMAIN rule
  /\ "conditions" \in DOMAIN rule
  /\ "action" \in DOMAIN rule
  /\ "version" \in DOMAIN rule

\* POST /rules/import
ImportRules ==
  /\ \E body \in ImportBodies :
       IF ~IsArray(body.rules) \/ \E i \in 1..Len(body.rules.a) : ~ValidImport(body.rules.a[i])
       THEN /\ response' = [op |-> "import", status |-> 400]
            /\ UNCHANGED rulesStorage
       ELSE /\ Len(body.rules.a) <= MaxStored
            /\ rulesStorage' = body.rules.a
            /\ response' = [op |-> "import", status |-> 200]
  /\ UNCHANGED <<versionHistory, nextId>>
  /\ UNCHANGED <<evalVars, engineVars>>

\* DELETE /rules/clear/all
ClearRules ==
  /\ rulesStorage' = <<>>
  /\ versionHistory' = <<>>
  /\ response' = [op |-> "clear", status |-> 200]
  /\ UNCHANGED nextId
  /\ UNCHANGED <<evalVars, engineVars>>

StoreInit == EvalIdle /\ EngineIdle /\ StoreEmpty

StoreNext ==
  \/ CreateRule
  \/ UpdateRule
  \/ DeleteRule
  \/ Rollback
  \/ ImportRules
  \/ ClearRules

StoreSpec == StoreInit /\ [][StoreNext]_vars

\* The rule store under create, rollback and delete requests only
LineageNext ==
  \/ CreateRule
  \/ Rollback
  \/ DeleteRule

LineageSpec == StoreInit /\ [][LineageNext]_vars

(***************************************************************************)
(* Claims about the evaluation                                             *)
(***************************************************************************)
\* The flat left-to-right fold of the outcomes outs under the operators lops
RECURSIVE LeftFold(_, _, _)
LeftFold(outs, lops, n) ==
  IF n = 1 THEN outs[1]
  ELSE IF lops[n] = "OR" THEN LeftFold(outs, lops, n - 1) \/ outs[n]
  ELSE LeftFold(outs, lops, n - 1) /\ outs[n]

\* C1: over a non-empty condition list evaluateConditions returns the flat
\* left-to-right fold of the condition outcomes: it starts from the outcome of
\* condition[0], whose own logical_operator is ignored, and combines each later
\* outcome with OR when that condition's logical_operator is OR and with AND
\* otherwise (missing means AND); 'A AND B OR C' is ((A AND B) OR C).
C1_FlatLeftFold ==
  (evalOut.done /\ Len(conditions) > 0) =>
    LET o == evalOut.condResults
        lops == [i \in 1..Len(conditions) |-> conditions[i].logical_operator]
    IN /\ evalOut.isFlagged = LeftFold(o, lops, Len(conditions))
       /\ Len(conditions) = 1 => evalOut.isFlagged = o[1]
       /\ (Len(conditions) = 3 /\ lops[2] \in {"AND", NoOp} /\ lops[3] = "OR")
            => evalOut.isFlagged = ((o[1] /\ o[2]) \/ o[3])

\* Witness of C1: 'A AND B OR C' with A false and C true is true under the
\* flat fold, where the grouping A AND (B OR C) would give false
C1_Witness ==
  /\ evalOut.done
  /\ Len(conditions) = 3
  /\ conditions[1].logical_operator = "OR"
  /\ conditions[2].logical_operator \in {"AND", NoOp}
  /\ conditions[3].logical_operator = "OR"
  /\ ~evalOut.condResults[1]
  /\ evalOut.condResults[3]
  /\ evalOut.isFlagged

\* C2: a condition whose field starts with 'Line.' is true iff the
\* transaction's Line is an array and at least one of its elements satisfies
\* the comparison on the field without its 5-character prefix; it is false
\* when Line is missing, is not an array, or is empty.
C2_LineFanOut ==
  evalOut.done =>
    \A i \in 1..Len(conditions) :
      LET c == conditions[i]
          lines == IF LineKey \in DOMAIN transaction.f THEN transaction.f[LineKey] ELSE Undef
          sub == SubSeq(c.field, 6, Len(c.field))
      IN (Len(c.field) >= 5 /\ SubSeq(c.field, 1, 5) = <<"L", "i", "n", "e", ".">>) =>
           /\ evalOut.condResults[i] <=>
                (/\ lines.k = "arr"
                 /\ \E j \in 1..Len(lines.a) :
                      compare(getNestedValue(lines.a[j], sub), c.operator, c.value))
           /\ (lines.k # "arr" => ~evalOut.condResults[i])
           /\ ((lines.k = "arr" /\ Len(lines.a) = 0) => ~evalOut.condResults[i])

\* Witness of C2: a Line condition is true although the first line does not
\* satisfy it, because a later line does
C2_Witness ==
  /\ evalOut.done
  /\ \E i \in 1..Len(conditions) :
       /\ conditions[i].field = LineAmtField
       /\ conditions[i].operator = "gt"
       /\ evalOut.condResults[i]
       /\ transaction.f[LineKey].k = "arr"
       /\ Len(transaction.f[LineKey].a) = 2
       /\ ~compare(getNestedValue(transaction.f[LineKey].a[1], AmtKey), "gt", conditions[i].value)

(***************************************************************************)
(* Claims about the engine                                                 *)
(***************************************************************************)
\* The positions of the rules whose executeRule call has completed
Completed ==
  IF call.fn = "executeMultipleRules" THEN 1..Len(results)
  ELSE IF call.fn = "executeRule" /\ pc = "returned" THEN {1}
  ELSE {}

\* The result of the completed executeRule call at position i
ResultOf(i) == IF call.fn = "executeRule" THEN ret ELSE results[i]

\* C3: every FlaggedTransaction produced for a transaction that passes the
\* fold has exactly one matched_conditions entry per condition of the rule, in
\* rule order, whether or not that condition was individually true.
C3_EvidencePerCondition ==
  \A i \in Completed :
    ResultOf(i).success =>
      LET rule == call.rules.a[i]
          flagged == ResultOf(i).data.flagged_transactions
      IN \A j \in 1..Len(flagged) :
           LET conds == IF rule.conditions.k = "arr" THEN rule.conditions.a ELSE <<>>
               mc == flagged[j].matched_conditions
           IN /\ evaluateConditions(flagged[j].transaction_data, rule.conditions)
              /\ Len(mc) = Len(conds)
              /\ \A c \in 1..Len(conds) :
                   /\ mc[c].field = conds[c].field
                   /\ mc[c].operator = conds[c].operator
                   /\ mc[c].value = conds[c].value

\* Witness of C3: a flagged transaction carries evidence for a condition that
\* is individually false for it (the false side of an OR)
C3_Witness ==
  \E i \in Completed :
    /\ ResultOf(i).success
    /\ \E j \in 1..Len(ResultOf(i).data.flagged_transactions) :
         LET ft == ResultOf(i).data.flagged_transactions[j]
             conds == call.rules.a[i].conditions.a
         IN /\ Len(conds) = 2
            /\ Len(ft.matched_conditions) = 2
            /\ \E c \in 1..2 : ~evaluateCondition(ft.transaction_data, conds[c])

\* C4: in executeMultipleRules the batch is obtained once and every rule is
\* run against that same sequence of transactions, whatever the data source
\* does while the batch execution is in progress.
C4_SameBatchForEveryRule ==
  call.fn = "executeMultipleRules" =>
    \A i, j \in 1..Len(fetched) : fetched[i] = fetched[j]

\* A rule fails when its fetch fails or when flagging one of the fetched
\* transactions raises an exception
RuleFails(rule, fetch) ==
  \/ ~fetch.ok
  \/ \E t \in 1..Len(fetch.records) :
       /\ evaluateConditions(fetch.records[t], rule.conditions)
       /\ \/ rule.conditions.k # "arr"
          \/ \E c \in 1..Len(rule.conditions.a) :
               /\ StartsWith(rule.conditions.a[c].field, LinePrefix)
               /\ GetKey(fetch.records[t], LineKey).k # "arr"

\* C5: a failing rule does not abort the batch: individual_results has one
\* entry per input rule, in input order; the failing rule's entry has
\* success = false; every entry is what executeRule alone returns for that
\* rule and the records fetched for it, independent of the other rules.
C5_FailureIsolated ==
  (call.fn = "executeMultipleRules" /\ pc = "returned" /\ ret.success) =>
    LET ruleList == call.rules.a
        individual == ret.data.individual_results
    IN /\ Len(individual) = Len(ruleList)
       /\ \A i \in 1..Len(ruleList) :
            /\ individual[i] = ExecuteRuleResult(ruleList[i], call.params.entity, fetched[i])
            /\ RuleFails(ruleList[i], fetched[i]) <=> ~individual[i].success
            /\ individual[i].success => individual[i].data.rule_id = ruleList[i].id

\* Witness of C5: three rules, the second fails, the first and third succeed
\* and flag transactions
C5_Witness ==
  /\ call.fn = "executeMultipleRules"
  /\ pc = "returned"
  /\ ret.success
  /\ Len(ret.data.individual_results) = 3
  /\ ~ret.data.individual_results[2].success
  /\ ret.data.individual_results[1].success
  /\ ret.data.individual_results[3].success
  /\ Len(ret.data.individual_results[3].data.flagged_transactions) > 0

\* C6: executeRule and executeMultipleRules never let an exception propagate:
\* for every rule, rule list, connection-parameter argument and data-source
\* outcome the call completes with a tagged result.
C6_NeverThrows ==
  /\ pc # "threw"
  /\ pc = "returned" =>
       \/ ret.success /\ ret.data # Null
       \/ ~ret.success /\ ret.data = Null

\* C10: every successful executeRule result carries flag_rate: "0%" when zero
\* transactions were checked, otherwise flagged_count / total_checked * 100
\* with two decimals and a trailing '%'.
C10_FlagRate ==
  \A i \in Completed :
    ResultOf(i).success =>
      LET summary == ResultOf(i).data.execution_summary
      IN /\ "flag_rate" \in DOMAIN summary
         /\ summary.total_checked = 0 => summary.flag_rate = <<"0", "%">>
         /\ (summary.total_checked = 3 /\ summary.flagged_count = 1)
              => summary.flag_rate = <<"3", "3", ".", "3", "3", "%">>

(***************************************************************************)
(* Claims about the rule store                                             *)
(***************************************************************************)
\* C7: after any sequence of rule-store operations at most one stored rule
\* per rule_type has is_active = true.
C7_OneActivePerType ==
  \A i, j \in 1..Len(rulesStorage) :
    (/\ rulesStorage[i].rule_type = rulesStorage[j].rule_type
     /\ IsActive(rulesStorage[i])
     /\ IsActive(rulesStorage[j])) => i = j

\* C8: after any sequence of create, rollback and delete operations no two
\* stored rules with the same rule_type share a version number, every newly
\* created rule having a version greater than all stored for its rule_type.
C8_VersionsUniquePerType ==
  \A i, j \in 1..Len(rulesStorage) :
    (/\ rulesStorage[i].rule_type = rulesStorage[j].rule_type
     /\ rulesStorage[i].version = rulesStorage[j].version) => i = j

\* The properties of a stored rule that are fixed at creation
FixedFields ==
  {"id", "version", "rule_type", "conditions", "action", "reason",
   "confidence_score", "original_instruction", "created_by"}

Fixed(rule) == [f \in FixedFields \cap DOMAIN rule |-> rule[f]]

\* C9: a stored rule is immutable except for is_active: neither an update
\* (PUT /rules/:id), whatever its payload, nor the creation of a new version
\* changes id, version, rule_type, conditions, action, reason,
\* confidence_score or provenance of an existing rule.
C9_StoredRuleImmutable ==
  [][(\/ response'.op = "update" /\ response'.status = 200
      \/ response'.op = "create" /\ response'.status = 201)
       => /\ Len(rulesStorage') >= Len(rulesStorage)
          /\ \A i \in 1..Len(rulesStorage) :
               Fixed(rulesStorage'[i]) = Fixed(rulesStorage[i])]_vars

\* The positions of a batch whose transaction passes the rule's condition fold
Passing(rule, records) ==
  {t \in 1..Len(records) : evaluateConditions(records[t], rule.conditions)}

\* C11: for a successful executeRule on a non-empty batch, a transaction is in
\* flagged_transactions iff the condition fold is true for it, each such
\* transaction exactly once and in batch order; total_transactions =
\* total_checked = batch length; flagged_count = number of flagged
\* transactions <= total_checked; every entry's action and reason are the
\* rule's and its transaction_data is the original record.
C11_FlaggedIffFoldTrue ==
  \A i \in Completed :
    (ResultOf(i).success /\ fetched[i].ok /\ Len(fetched[i].records) > 0) =>
      LET rule == call.rules.a[i]
          records == fetched[i].records
          data == ResultOf(i).data
          flagged == data.flagged_transactions
          passing == Passing(rule, records)
      IN /\ Len(flagged) = Cardinality(passing)
         /\ \A t \in passing :
              LET j == Cardinality({u \in passing : u <= t})
              IN /\ flagged[j].transaction_data = records[t]
                 /\ flagged[j].action = rule.action
                 /\ flagged[j].reason = rule.reason
         /\ data.total_transactions = Len(records)
         /\ data.execution_summary.total_checked = Len(records)
         /\ data.execution_summary.flagged_count = Len(flagged)
         /\ data.execution_summary.flagged_count <= data.execution_summary.total_checked

\* Witness of C11: a successful run over three transactions flags the first
\* and the third and leaves the second out
C11_Witness ==
  \E i \in Completed :
    /\ ResultOf(i).success
    /\ fetched[i].ok
    /\ Len(fetched[i].records) = 3
    /\ Passing(call.rules.a[i], fetched[i].records) = {1, 3}
    /\ Len(ResultOf(i).data.flagged_transactions) = 2
    /\ ResultOf(i).data.flagged_transactions[1].transaction_data = fetched[i].records[1]
    /\ ResultOf(i).data.flagged_transactions[2].transaction_data = fetched[i].records[3]

\* C12: in every successful executeMultipleRules result total_rules_executed
\* = number of input rules = successful_executions + failed_executions;
\* total_transactions_checked and total_transactions_flagged are the sums of
\* total_checked and flagged_count over exactly the successful individual
\* results (failed rules contribute 0); so total_transactions_flagged <=
\* total_transactions_checked.
C12_BatchSummary ==
  (call.fn = "executeMultipleRules" /\ pc = "returned" /\ ret.success) =>
    LET summary == ret.data.summary
        individual == ret.data.individual_results
        ok == {i \in 1..Len(individual) : individual[i].success}
        checkedUnits ==
          UNION {{<<i, t>> : t \in 1..individual[i].data.execution_summary.total_checked} :
                 i \in ok}
        flaggedUnits ==
          UNION {{<<i, t>> : t \in 1..individual[i].data.execution_summary.flagged_count} :
                 i \in ok}
    IN /\ summary.total_rules_executed = Len(call.rules.a)
       /\ summary.successful_executions = Cardinality(ok)
       /\ summary.failed_executions = Len(individual) - Cardinality(ok)
       /\ summary.total_rules_executed =
            summary.successful_executions + summary.failed_executions
       /\ summary.total_transactions_checked = Cardinality(checkedUnits)
       /\ summary.total_transactions_flagged = Cardinality(flaggedUnits)
       /\ summary.total_transactions_flagged <= summary.total_transactions_checked

\* Witness of C12: a batch with a failed rule and successful rules that
\* flagged fewer transactions than they checked
C12_Witness ==
  /\ call.fn = "executeMultipleRules"
  /\ pc = "returned"
  /\ ret.success
  /\ ret.data.summary.failed_executions > 0
  /\ ret.data.summary.successful_executions > 1
  /\ ret.data.summary.total_transactions_flagged > 0
  /\ ret.data.summary.total_transactions_flagged < ret.data.summary.total_transactions_checked

\* C13: for every rule whose condition list is empty and every non-empty
\* batch, every transaction of the batch is flagged (flagged_count =
\* total_checked) and each flagged entry has an empty matched_conditions list.
C13_EmptyConditionsFlagAll ==
  \A i \in Completed :
    LET rule == call.rules.a[i]
    IN (/\ IsArray(rule.conditions)
        /\ Len(rule.conditions.a) = 0
        /\ fetched[i].ok
        /\ Len(fetched[i].records) > 0) =>
         LET records == fetched[i].records
             data == ResultOf(i).data
         IN /\ ResultOf(i).success
            /\ data.execution_summary.flagged_count = Len(records)
            /\ data.execution_summary.flagged_count = data.execution_summary.total_checked
            /\ Len(data.flagged_transactions) = Len(records)
            /\ \A t \in 1..Len(records) :
                 /\ data.flagged_transactions[t].transaction_data = records[t]
                 /\ data.flagged_transactions[t].matched_conditions = <<>>

\* Witness of C13: the rule with the empty condition list has flagged all
\* three transactions of a batch
C13_Witness ==
  \E i \in Completed :
    /\ call.rules.a[i].conditions = Arr(<<>>)
    /\ fetched[i].ok
    /\ Len(fetched[i].records) = 3
    /\ ResultOf(i).success
    /\ ResultOf(i).data.execution_summary.flagged_count = 3

\* The value the conditions of the compare pool read from the transaction:
\* Amt when the field is Amt and the record has it, nothing otherwise
ActualValue ==
  IF conditions[1].field = AmtField /\ AmtKey \in DOMAIN transaction.f
  THEN transaction.f[AmtKey]
  ELSE Undef

TargetValue == conditions[1].value

\* The outcome of the condition that carries the given operator
OutcomeOf(operator) ==
  evalOut.condResults[CHOOSE i \in 1..Len(conditions) : conditions[i].operator = operator]

\* C14: compare returns false for every operator, the negative ones ne,
\* not_contains and not_in included, whenever the resolved actual value is
\* null or undefined; a field path that does not resolve on a transaction
\* makes its condition false and is never an error.
C14_AbsentActualIsFalse ==
  (evalOut.done /\ ActualValue \in {Null, Undef}) =>
    /\ Len(evalOut.condResults) = Len(conditions)
    /\ \A i \in 1..Len(conditions) : ~evalOut.condResults[i]
    /\ ~evalOut.isFlagged

\* Witness of C14: ne, not_contains and not_in have been evaluated to false
\* on the dotted path Ref.Nm, which does not resolve on the transaction
C14_Witness ==
  /\ evalOut.done
  /\ conditions[1].field = RefNmField
  /\ ActualValue = Undef
  /\ TargetValue = Arr(<<>>)
  /\ ~OutcomeOf("ne") /\ ~OutcomeOf("not_contains") /\ ~OutcomeOf("not_in")

\* C15: when the target is not an ordered sequence, compare returns false for
\* both in and not_in, for every present actual value; when the target is an
\* ordered sequence and the actual value is present, not_in is the negation
\* of in.
C15_InAndNotIn ==
  (evalOut.done /\ ActualValue \notin {Null, Undef}) =>
    IF TargetValue.k = "arr"
    THEN OutcomeOf("not_in") <=> ~OutcomeOf("in")
    ELSE ~OutcomeOf("in") /\ ~OutcomeOf("not_in")

\* Witness of C15: a present value against a target that is not a sequence
\* gave false for in and for not_in, the two agreeing
C15_Witness ==
  /\ evalOut.done
  /\ ActualValue = Num(5)
  /\ TargetValue = Str(<<"5">>)
  /\ ~OutcomeOf("in")
  /\ ~OutcomeOf("not_in")

\* A present value found in a sequence target: in true, not_in false
C15_WitnessSequence ==
  /\ evalOut.done
  /\ ActualValue = Num(5)
  /\ TargetValue.k = "arr"
  /\ OutcomeOf("in")
  /\ ~OutcomeOf("not_in")

\* An actual value and a target that are both scalars of the pool
ScalarPair == ActualValue \in Scalars /\ TargetValue \in Scalars

\* C16 as stated: for present actual values eq holds iff the string
\* representations of actual and target are equal, except that when both
\* values parse as numbers numeric equality is used instead; ne is the
\* negation of eq; for every pair of scalars among numbers, numeric strings,
\* non-numeric strings, the empty string and booleans.
C16_EqByStringOrNumber ==
  (evalOut.done /\ ScalarPair) =>
    /\ OutcomeOf("eq") <=>
         IF parseFloat(ActualValue).ok /\ parseFloat(TargetValue).ok
         THEN parseFloat(ActualValue).n = parseFloat(TargetValue).n
         ELSE ToStr(ActualValue) = ToStr(TargetValue)
    /\ OutcomeOf("ne") <=> ~OutcomeOf("eq")

\* Number(v) of a scalar
ScalarToNumber(v) ==
  CASE v.k = "num" -> Number(v.n)
    [] v.k = "bool" -> Number(IF v.b THEN 1 ELSE 0)
    [] v.k = "str" -> StrToNumber(v.s)

\* C16 amended: for present scalar values eq is loose equality: two values of
\* the same type (two strings, two numbers, two booleans) are equal iff their
\* string representations are equal, two numeric strings being compared as
\* strings; two values of different types are equal iff both convert to
\* numbers (true to 1, false to 0, the empty string to 0) and the numbers are
\* equal; ne is the negation of eq.
C16_EqIsLooseEquality ==
  (evalOut.done /\ ScalarPair) =>
    /\ OutcomeOf("eq") <=>
         IF ActualValue.k = TargetValue.k
         THEN ToStr(ActualValue) = ToStr(TargetValue)
         ELSE /\ ScalarToNumber(ActualValue).ok
              /\ ScalarToNumber(TargetValue).ok
              /\ ScalarToNumber(ActualValue).n = ScalarToNumber(TargetValue).n
    /\ OutcomeOf("ne") <=> ~OutcomeOf("eq")

\* Witness of C16: the numeric strings "05" and "5" compared: eq is false and
\* ne is true
C16_Witness ==
  /\ evalOut.done
  /\ ActualValue = Str(<<"0", "5">>)
  /\ TargetValue = Str(<<"5">>)
  /\ ~OutcomeOf("eq")
  /\ OutcomeOf("ne")

\* The condition list with its second and third conditions exchanged, each
\* keeping its own logical_operator
SwapLastTwo(conds) == <<conds[1], conds[3], conds[2]>>

\* C19: reordering two conditions that carry different logical operators
\* changes the fold: with A true, B false (carrying AND) and C true (carrying
\* OR), [A, B, C] folds as (A AND B) OR C = true and the list with C placed
\* before B folds as (A OR C) AND B = false.
C19_ReorderChangesFold ==
  (evalOut.done /\ Len(conditions) = 3) =>
    /\ (/\ evalOut.condResults = <<TRUE, FALSE, TRUE>>
        /\ conditions[2].logical_operator = "AND"
        /\ conditions[3].logical_operator = "OR")
       => /\ evalOut.isFlagged
          /\ ~evaluateConditions(transaction, Arr(SwapLastTwo(conditions)))
    /\ (/\ evalOut.condResults = <<TRUE, TRUE, FALSE>>
        /\ conditions[2].logical_operator = "OR"
        /\ conditions[3].logical_operator = "AND")
       => /\ ~evalOut.isFlagged
          /\ evaluateConditions(transaction, Arr(SwapLastTwo(conditions)))

\* Witness of C19: the list with C before B has been folded to false, where
\* the list with B before C folds to true
C19_Witness ==
  /\ evalOut.done
  /\ Len(conditions) = 3
  /\ evalOut.condResults = <<TRUE, TRUE, FALSE>>
  /\ conditions[2].logical_operator = "OR"
  /\ conditions[3].logical_operator = "AND"
  /\ ~evalOut.isFlagged
  /\ evaluateConditions(transaction, Arr(SwapLastTwo(conditions)))

\* The positions (from 1) of the lines of tx that satisfy the comparison of a
\* Line.-prefixed condition, the predicate of the fan-out
SatisfyingLines(tx, condition) ==
  LET lines == tx.f[LineKey].a
      path == SubSeq(condition.field, Len(LinePrefix) + 1, Len(condition.field))
  IN {l \in 1..Len(lines) :
        compare(getNestedValue(lines[l], path), condition.operator, condition.value)}

\* The flagged transactions of the completed successful runs, as records
\* [rule, ft]
FlaggedEntries ==
  UNION {{[rule |-> call.rules.a[i], ft |-> ResultOf(i).data.flagged_transactions[j]] :
            j \in 1..Len(ResultOf(i).data.flagged_transactions)} :
         i \in {c \in Completed : ResultOf(c).success}}

\* C17: for a flagged transaction and a Line.-prefixed condition that at
\* least one line satisfies, flagged_field_data.line_index is the smallest
\* index i such that Line[i] satisfies the predicate of the fan-out, and
\* line_data is the full sub-record Line[i]; with lines Amt 150 then Amt 50
\* and the condition Line.Amt gt 100, line_index is 0.
C17_FirstMatchingLine ==
  \A e \in FlaggedEntries :
    \A c \in 1..Len(e.rule.conditions.a) :
      LET condition == e.rule.conditions.a[c]
          tx == e.ft.transaction_data
          ffd == e.ft.matched_conditions[c].flagged_field_data
      IN (StartsWith(condition.field, LinePrefix) /\ SatisfyingLines(tx, condition) # {}) =>
           /\ ffd # Null
           /\ ffd.line_index + 1 \in SatisfyingLines(tx, condition)
           /\ \A l \in SatisfyingLines(tx, condition) : ffd.line_index + 1 <= l
           /\ ffd.line_data = tx.f[LineKey].a[ffd.line_index + 1]
           /\ (tx = TxA /\ condition = LineGt(NoOp)) => ffd.line_index = 0

\* Witness of C17: of three lines the second and the third satisfy the
\* condition; the evidence names index 1 and carries the second line whole
C17_Witness ==
  \E e \in FlaggedEntries :
    \E c \in 1..Len(e.rule.conditions.a) :
      /\ StartsWith(e.rule.conditions.a[c].field, LinePrefix)
      /\ SatisfyingLines(e.ft.transaction_data, e.rule.conditions.a[c]) = {2, 3}
      /\ e.ft.matched_conditions[c].flagged_field_data.line_index = 1
      /\ e.ft.matched_conditions[c].flagged_field_data.line_data = Line2("b", Num(150))

\* C18: for a flagged transaction and a condition whose field is not
\* Line.-prefixed, actual_value and flagged_field_data.field_value both equal
\* resolve(transaction, field); for a top-level field parent_object is the
\* transaction itself and field_name is the field; for a dotted field
\* parent_path is the path without its last segment, parent_object is
\* resolve(transaction, parent_path) and field_name is the last segment.
C18_FieldEvidence ==
  \A e \in FlaggedEntries :
    \A c \in 1..Len(e.rule.conditions.a) :
      LET field == e.rule.conditions.a[c].field
          tx == e.ft.transaction_data
          ev == e.ft.matched_conditions[c]
          ffd == ev.flagged_field_data
          dotted == \E p \in 1..Len(field) : field[p] = "."
      IN ~StartsWith(field, LinePrefix) =>
           /\ ev.actual_value = getNestedValue(tx, field)
           /\ ffd.field_value = getNestedValue(tx, field)
           /\ IF dotted
              THEN /\ ffd.parent_path \o <<".">> \o ffd.field_name = field
                   /\ \A p \in 1..Len(ffd.field_name) : ffd.field_name[p] # "."
                   /\ ffd.parent_object = getNestedValue(tx, ffd.parent_path)
              ELSE /\ ffd.parent_object = tx
                   /\ ffd.field_name = field
                   /\ "parent_path" \notin DOMAIN ffd

\* Witness of C18: evidence for the dotted field Ref.Nm whose parent_object is
\* the Ref sub-record of the transaction, beside evidence for the top-level
\* field Amt whose parent_object is the transaction
C18_Witness ==
  \E e \in FlaggedEntries :
    /\ Len(e.rule.conditions.a) = 2
    /\ e.rule.conditions.a[1].field = RefNmField
    /\ e.rule.conditions.a[2].field = AmtField
    /\ e.ft.matched_conditions[1].flagged_field_data.parent_path = RefKey
    /\ e.ft.matched_conditions[1].flagged_field_data.field_name = NmKey
    /\ e.ft.matched_conditions[1].flagged_field_data.parent_object = Obj(NmKey :> Str(VISA))
    /\ e.ft.matched_conditions[1].actual_value = Str(VISA)
    /\ e.ft.matched_conditions[2].flagged_field_data.parent_object = e.ft.transaction_data
    /\ e.ft.matched_conditions[2].flagged_field_data.field_name = AmtKey

\* A rule of a request that is missing, has no conditions array, or has a
\* condition without field, operator or value
MissingRequiredFields(rule) ==
  \/ rule = Undef
  \/ ~IsArray(rule.conditions)
  \/ \E c \in 1..Len(rule.conditions.a) :
       \/ rule.conditions.a[c].field = <<>>
       \/ rule.conditions.a[c].operator = NoOp
       \/ IsAbsent(rule.conditions.a[c].value)

\* The request in progress carries a rule or a condition that is missing
\* required fields
ShapeError ==
  /\ call.route \in {"rule", "rules"}
  /\ \/ ~IsArray(call.rules)
     \/ \E i \in 1..Len(call.rules.a) : MissingRequiredFields(call.rules.a[i])

\* C20: a rule or condition that is missing required fields is detected by
\* the caller before evaluation begins: POST /rule and POST /rules answer such
\* a request with a 400 failure and never invoke the engine, so no data is
\* fetched and no rule of the request is evaluated; in /rules a single
\* malformed rule rejects the whole request.
C20_ShapeErrorsRejected ==
  ShapeError =>
    /\ pc = "rejected"
    /\ response.status = 400
    /\ call.fn = "none"
    /\ fetched = <<>>
    /\ results = <<>>
    /\ ret = NoReturn

\* What the data source can hand to the engine
SourceOutputs == {FetchOk(records) : records \in Batches} \cup {FetchError}

\* A step of a call in progress leaves the rule list and the connection
\* parameters as they were given and the records fetched so far as they were
\* fetched, and what it adds to them is what the data source produced
EngineStepKeepsInputs ==
  pc = "fetching" =>
    /\ call' = call
    /\ Len(fetched') = Len(fetched) + 1
    /\ \A i \in 1..Len(fetched) : fetched'[i] = fetched[i]
    /\ fetched'[Len(fetched')] \in SourceOutputs
    /\ \A i \in 1..Len(results) : results'[i] = results[i]

\* Every completed executeRule is a function of its own rule and of the
\* records fetched for it, whatever ran before it
NothingCarriedOver ==
  \A i \in Completed :
    /\ ResultOf(i) = ExecuteRuleResult(call.rules.a[i], call.params.entity, fetched[i])
    /\ ResultOf(i).success =>
         \A j \in 1..Len(ResultOf(i).data.flagged_transactions) :
           \E t \in 1..Len(fetched[i].records) :
             ResultOf(i).data.flagged_transactions[j].transaction_data = fetched[i].records[t]

\* C21: executeRule and executeMultipleRules never modify the rule objects or
\* the transaction records they work on: after any execution, successful or
\* failed, every rule and every transaction is field-for-field what it was
\* before the call, and no state is carried from one invocation to the next.
C21_InputsReadOnly == [][EngineStepKeepsInputs]_vars /\ []NothingCarriedOver

\* Witness of C21: a batch has completed in which a rule failed and a later
\* rule, whose condition carries no logical_operator, flagged transactions
C21_Witness ==
  /\ call.fn = "executeMultipleRules"
  /\ pc = "returned"
  /\ \E i, j \in 1..Len(results) :
       /\ i < j
       /\ ~results[i].success
       /\ results[j].success
       /\ Len(results[j].data.flagged_transactions) > 0
       /\ call.rules.a[j] = RuleAmt

\* While a batch is running exactly one rule is in progress, the one at idx:
\* the results of all rules before it are recorded, in rule order, data was
\* accessed for them and for no rule after them
OneRuleInProgress ==
  (call.fn = "executeMultipleRules" /\ pc \in {"fetching", "returned"} /\ IsArray(call.rules)) =>
    /\ Len(results) = Len(fetched)
    /\ pc = "fetching" => (idx \in 1..Len(call.rules.a) /\ Len(results) = idx - 1)
    /\ pc = "returned" => Len(results) = Len(call.rules.a)
    /\ \A i \in 1..Len(results) :
         results[i].success => results[i].data.rule_id = call.rules.a[i].id

\* A step of a running batch records the result of the rule in progress at
\* the end of the results and only then moves to the next rule
RecordThenAdvance ==
  (call.fn = "executeMultipleRules" /\ pc = "fetching") =>
    /\ results' = Append(results, results'[Len(results')])
    /\ Len(fetched') = Len(results')
    /\ idx' \in {idx, idx + 1}
    /\ idx' = idx + 1 => (pc' = "fetching" /\ Len(results') = idx)
    /\ idx' = idx => pc' = "returned"

\* C22: executeMultipleRules processes rules strictly in array order, one at
\* a time: the processing of rule i+1, its data access and evaluation
\* included, does not begin until the result of rule i has been recorded; no
\* two rules are ever in progress simultaneously and results are appended in
\* rule order.
C22_OneRuleAtATime == []OneRuleInProgress /\ [][RecordThenAdvance]_vars

\* Witness of C22: the second of three rules is in progress; one result is
\* recorded and data was accessed once
C22_Witness ==
  /\ call.fn = "executeMultipleRules"
  /\ pc = "fetching"
  /\ Len(call.rules.a) = 3
  /\ idx = 2
  /\ Len(results) = 1
  /\ Len(fetched) = 1

\* executeMultipleRules has returned a result for the whole rule list or a
\* top-level failure
BatchCompleted ==
  /\ call.fn = "executeMultipleRules"
  /\ pc = "returned"
  /\ \/ ~ret.success
     \/ Len(ret.data.individual_results) = Len(call.rules.a)

\* C23: once executeMultipleRules starts on a finite rule list, and every
\* data-source request eventually returns or fails, it eventually completes
\* with a success result holding one individual result for every input rule
\* or with a top-level failure result; it never returns results for only a
\* prefix of the rules.
C23_BatchTerminates ==
  /\ (call.fn = "executeMultipleRules") ~> BatchCompleted
  /\ []((call.fn = "executeMultipleRules" /\ pc = "returned") => BatchCompleted)

\* The path of the resolution, the position of its last '.', (0 when it has
\* none), what precedes that '.' and what follows it
ResolvedPath == conditions[1].field
LastDot ==
  IF \E p \in 1..Len(ResolvedPath) : ResolvedPath[p] = "."
  THEN CHOOSE p \in 1..Len(ResolvedPath) :
         /\ ResolvedPath[p] = "."
         /\ \A q \in (p + 1)..Len(ResolvedPath) : ResolvedPath[q] # "."
  ELSE 0
PathBefore == SubSeq(ResolvedPath, 1, LastDot - 1)
LastSegment == SubSeq(ResolvedPath, LastDot + 1, Len(ResolvedPath))

\* C24: resolve(root, path) splits path on '.', applies every all-digit
\* segment as an index into the current value and every other segment as a
\* key lookup, and returns absent, raising no error, as soon as the current
\* value is null or undefined at any step; for a path whose every step exists
\* it returns the addressed value.
C24_Resolve ==
  evalOut.done =>
    LET current == IF LastDot = 0 THEN transaction
                   ELSE getNestedValue(transaction, PathBefore)
        isIndex == /\ Len(LastSegment) > 0
                   /\ \A p \in 1..Len(LastSegment) :
                        LastSegment[p] \in {"0", "1", "2", "3", "4", "5", "6", "7", "8", "9"}
    IN /\ evalOut.value =
            IF current \in {Null, Undef} THEN Undef
            ELSE IF isIndex THEN GetIndex(current, DigitsValue(LastSegment))
            ELSE GetKey(current, LastSegment)
       /\ (transaction = TxA /\ ResolvedPath = LineZeroAmtField) => evalOut.value = Num(150)
       /\ (transaction = TxA /\ ResolvedPath = RefNmField) => evalOut.value = Str(VISA)
       /\ (transaction = TxA /\ ResolvedPath = LineAmtField) => evalOut.value = Undef
       /\ (transaction = TxB /\ ResolvedPath = RefNmField) => evalOut.value = Undef

\* Witness of C24: Line.1.Amt resolved on a record whose second line is null:
\* the walk met null before the last segment and the result is absent
C24_Witness ==
  /\ evalOut.done
  /\ transaction = TxF
  /\ ResolvedPath = LinePrefix \o <<"1", ".">> \o AmtKey
  /\ getNestedValue(transaction, PathBefore) = Null
  /\ evalOut.value = Undef

\* Line.0.Amt resolved on a record with lines: every step exists
C24_WitnessAddressed ==
  /\ evalOut.done
  /\ transaction = TxA
  /\ ResolvedPath = LineZeroAmtField
  /\ evalOut.value = Num(150)

\* The rule has a Line.-prefixed condition
HasLineCondition(rule) ==
  /\ IsArray(rule.conditions)
  /\ \E c \in 1..Len(rule.conditions.a) : StartsWith(rule.conditions.a[c].field, LinePrefix)

\* The record has no Line, or a Line that is not an array
LineUnusable(tx) == LineKey \notin DOMAIN tx.f \/ tx.f[LineKey].k # "arr"

\* C25: if a transaction passes the fold (through an OR with another
\* condition) while the rule contains a Line.-prefixed condition and that
\* transaction's Line is absent or not an array, evidence extraction faults
\* and the whole executeRule call returns success = false with data = null:
\* no flagged transaction is reported for any transaction of the batch,
\* those processed before the fault included.
C25_EvidenceFaultFailsRule ==
  \A i \in Completed :
    LET rule == call.rules.a[i]
        records == fetched[i].records
    IN (/\ fetched[i].ok
        /\ HasLineCondition(rule)
        /\ \E t \in 1..Len(records) :
             LineUnusable(records[t]) /\ evaluateConditions(records[t], rule.conditions))
       => /\ ~ResultOf(i).success
          /\ ResultOf(i).data = Null
          /\ DOMAIN ResultOf(i) = {"success", "error", "data"}

\* Witness of C25: the first transaction passes the fold and has lines, the
\* second passes it without a Line; the rule failed and reports nothing
C25_Witness ==
  \E i \in Completed :
    /\ fetched[i].ok
    /\ Len(fetched[i].records) = 2
    /\ HasLineCondition(call.rules.a[i])
    /\ ~LineUnusable(fetched[i].records[1])
    /\ evaluateConditions(fetched[i].records[1], call.rules.a[i].conditions)
    /\ LineKey \notin DOMAIN fetched[i].records[2].f
    /\ evaluateConditions(fetched[i].records[2], call.rules.a[i].conditions)
    /\ ~ResultOf(i).success
    /\ ResultOf(i).data = Null

\* The same with a second transaction whose Line is an object, not an array
C25_WitnessNotArray ==
  \E i \in Completed :
    /\ fetched[i].ok
    /\ Len(fetched[i].records) = 2
    /\ HasLineCondition(call.rules.a[i])
    /\ evaluateConditions(fetched[i].records[1], call.rules.a[i].conditions)
    /\ LineKey \in DOMAIN fetched[i].records[2].f
    /\ LineUnusable(fetched[i].records[2])
    /\ ~ResultOf(i).success

\* C26: for a Line.-prefixed condition the evidence's actual_value (and
\* flagged_field_data.field_value) is obtained by resolving the full field
\* path from the transaction root, a key lookup on the Line array itself, not
\* from the matching line; for a sub-path that does not begin with a numeric
\* index, such as Line.Amt, it is absent even when line_index identifies a
\* line that satisfied the comparison.
C26_LineActualValueFromRoot ==
  \A e \in FlaggedEntries :
    \A c \in 1..Len(e.rule.conditions.a) :
      LET field == e.rule.conditions.a[c].field
          tx == e.ft.transaction_data
          ev == e.ft.matched_conditions[c]
          ffd == ev.flagged_field_data
      IN StartsWith(field, LinePrefix) =>
           /\ ev.actual_value = getNestedValue(tx, field)
           /\ ffd # Null => ffd.field_value = ev.actual_value
           /\ field[Len(LinePrefix) + 1] \notin {"0", "1", "2", "3", "4", "5", "6", "7", "8", "9"}
                => /\ ev.actual_value = Undef
                   /\ ffd # Null => ffd.field_value = Undef
           /\ field = LineZeroAmtField => ev.actual_value = tx.f[LineKey].a[1].f[AmtKey]

\* Witness of C26: the evidence for Line.Amt gt 100 names line 0, whose Amt
\* is 150, and its actual_value and field_value are absent
C26_Witness ==
  \E e \in FlaggedEntries :
    \E c \in 1..Len(e.rule.conditions.a) :
      /\ e.rule.conditions.a[c].field = LineAmtField
      /\ e.ft.matched_conditions[c].flagged_field_data # Null
      /\ e.ft.matched_conditions[c].flagged_field_data.line_index = 0
      /\ e.ft.matched_conditions[c].flagged_field_data.line_data = Line1(Num(150))
      /\ e.ft.matched_conditions[c].flagged_field_data.field_value = Undef
      /\ e.ft.matched_conditions[c].actual_value = Undef

\* C27: for a flagged transaction whose Line is an array, the
\* flagged_field_data of a Line.-prefixed condition is non-null iff that
\* condition individually evaluates to true for the transaction; for a
\* Line.-prefixed condition that is individually false the matched_conditions
\* entry is still present, with flagged_field_data null.
C27_LineDataIffConditionTrue ==
  \A e \in FlaggedEntries :
    LET tx == e.ft.transaction_data
        conds == e.rule.conditions.a
    IN (LineKey \in DOMAIN tx.f /\ tx.f[LineKey].k = "arr") =>
         /\ Len(e.ft.matched_conditions) = Len(conds)
         /\ \A c \in 1..Len(conds) :
              StartsWith(conds[c].field, LinePrefix) =>
                /\ e.ft.matched_conditions[c].field = conds[c].field
                /\ e.ft.matched_conditions[c].flagged_field_data # Null
                     <=> evaluateCondition(tx, conds[c])

\* Witness of C27: a transaction with lines was flagged through the other
\* side of an OR; the entry of its false Line condition has null
\* flagged_field_data
C27_Witness ==
  \E e \in FlaggedEntries :
    /\ LineKey \in DOMAIN e.ft.transaction_data.f
    /\ e.ft.transaction_data.f[LineKey].k = "arr"
    /\ Len(e.ft.transaction_data.f[LineKey].a) > 0
    /\ Len(e.rule.conditions.a) = 2
    /\ e.rule.conditions.a[1] = LineGt(NoOp)
    /\ ~evaluateCondition(e.ft.transaction_data, e.rule.conditions.a[1])
    /\ e.ft.matched_conditions[1].field = LineAmtField
    /\ e.ft.matched_conditions[1].flagged_field_data = Null

\* A stored rule with its is_active field left out
WithoutActive(rule) == [f \in DOMAIN rule \ {"is_active"} |-> rule[f]]

\* The positions of the stored rules with the rule_type and the version that
\* the parameter, a one-digit string, denotes
VersionHits(ruleType, version) ==
  {i \in 1..Len(rulesStorage) :
     /\ rulesStorage[i].rule_type = ruleType
     /\ rulesStorage[i].version \in 0..9
     /\ version = <<Digits[rulesStorage[i].version + 1]>>}

\* The step is what the claim says of Rollback(ruleType, version)
RollbackAsClaimed(ruleType, version) ==
  LET hits == VersionHits(ruleType, version)
  IN IF hits = {}
     THEN /\ response'.status = 404
          /\ rulesStorage' = rulesStorage
     ELSE LET first == CHOOSE i \in hits : \A j \in hits : i <= j
          IN /\ response'.status = 200
             /\ Len(rulesStorage') = Len(rulesStorage)
             /\ \A i \in 1..Len(rulesStorage) :
                  /\ WithoutActive(rulesStorage'[i]) = WithoutActive(rulesStorage[i])
                  /\ rulesStorage[i].rule_type # ruleType => rulesStorage'[i] = rulesStorage[i]
                  /\ i = first => rulesStorage'[i].is_active = TRUE
                  /\ (i # first /\ rulesStorage[i].rule_type = ruleType)
                       => rulesStorage'[i].is_active = FALSE

\* C28: Rollback(ruleType, version) for which a stored rule with that
\* rule_type and version exists makes the first such stored rule active and
\* every other rule of that rule_type inactive, leaving rules of other
\* rule_types, all fields other than is_active and the number of stored rules
\* unchanged; when no stored rule matches it answers 404 and the store is
\* unchanged.
C28_RollbackFrame ==
  [][(response'.op = "rollback") =>
       /\ RollbackAsClaimed(response'.rule_type, response'.version)
       /\ versionHistory' = versionHistory
       /\ nextId' = nextId]_vars

\* Witness of C28: after a rollback that answered 200 the store holds an
\* active version 1 and an inactive version 2 of one rule_type, beside an
\* active rule of another rule_type
C28_Witness ==
  /\ response.op = "rollback"
  /\ response.status = 200
  /\ \E i, j, k \in 1..Len(rulesStorage) :
       /\ rulesStorage[i].rule_type = rulesStorage[j].rule_type
       /\ rulesStorage[i].version = 1 /\ rulesStorage[i].is_active
       /\ rulesStorage[j].version = 2 /\ ~rulesStorage[j].is_active
       /\ rulesStorage[k].rule_type # rulesStorage[i].rule_type
       /\ rulesStorage[k].is_active

\* The positions of the supplied rules whose is_active is not false
NotInactive(supplied) ==
  {i \in 1..Len(supplied) :
     "is_active" \notin DOMAIN supplied[i] \/ supplied[i].is_active # FALSE}

\* C29: POST /all-active executes exactly the supplied rules whose is_active
\* is not false (a rule with is_active missing counts as active), in their
\* original relative order; when no supplied rule is active it answers
\* success with an all-zero summary and empty individual_results without
\* invoking the engine or fetching any data.
C29_AllActive ==
  (call.route = "all-active" /\ pc # "rejected") =>
    LET supplied == call.supplied.a
        active == NotInactive(supplied)
    IN IF active = {}
       THEN /\ pc = "answered"
            /\ call.fn = "none"
            /\ fetched = <<>>
            /\ results = <<>>
            /\ ret = NoReturn
            /\ response.status = 200
            /\ response.data.individual_results = <<>>
            /\ \A f \in DOMAIN response.data.summary : response.data.summary[f] = 0
       ELSE /\ call.fn = "executeMultipleRules"
            /\ Len(call.rules.a) = Cardinality(active)
            /\ \A i \in active :
                 call.rules.a[Cardinality({j \in active : j <= i})] = supplied[i]
            /\ \A r \in 1..Len(results) :
                 results[r].success => results[r].data.rule_id = call.rules.a[r].id

\* Witness of C29: of three supplied rules the first has no is_active, the
\* second is inactive and the third active; the first and the third were
\* executed, in that order
C29_Witness ==
  /\ call.route = "all-active"
  /\ pc = "returned"
  /\ Len(call.supplied.a) = 3
  /\ NotInactive(call.supplied.a) = {1, 3}
  /\ "is_active" \notin DOMAIN call.supplied.a[1]
  /\ Len(results) = 2
  /\ results[1].success /\ results[1].data.rule_id = call.supplied.a[1].id
  /\ results[2].success /\ results[2].data.rule_id = call.supplied.a[3].id

\* No supplied rule was active: the route answered without the engine
C29_WitnessNoneActive ==
  /\ call.route = "all-active"
  /\ pc = "answered"
  /\ Len(call.supplied.a) = 2
  /\ response.status = 200
  /\ fetched = <<>>

\* C30: a batch execution is reported as successful whenever the rule list
\* could be iterated: executeMultipleRules returns success = true, and POST
\* /rules answers success rather than an error status, even when every
\* individual rule failed; the failures are visible only as failed_executions
\* = number of rules, zero transaction totals and per-rule success = false
\* entries.
C30_BatchSuccessDespiteFailures ==
  (call.fn = "executeMultipleRules" /\ pc = "returned" /\ IsArray(call.rules)) =>
    /\ ret.success
    /\ call.route = "rules" => response.status = 200
    /\ (\A i \in 1..Len(results) : ~results[i].success) =>
         /\ ret.data.summary.failed_executions = Len(call.rules.a)
         /\ ret.data.summary.successful_executions = 0
         /\ ret.data.summary.total_transactions_checked = 0
         /\ ret.data.summary.total_transactions_flagged = 0
         /\ Len(ret.data.individual_results) = Len(call.rules.a)
         /\ \A i \in 1..Len(call.rules.a) :
              /\ ~ret.data.individual_results[i].success
              /\ ret.data.individual_results[i].data = Null

\* Witness of C30: POST /rules with two rules that both failed was answered
\* 200 with a successful batch result
C30_Witness ==
  /\ call.fn = "executeMultipleRules"
  /\ call.route = "rules"
  /\ pc = "returned"
  /\ Len(call.rules.a) = 2
  /\ \A i \in 1..2 : ~results[i].success
  /\ ret.success
  /\ ret.data.summary.failed_executions = 2
  /\ response.status = 200

====
